---- MODULE Spec2Model ----
(***************************************************************************)
(* Model of the parcel scoring engine of geo_bot (bot/services/metrics.py).*)
(*                                                                         *)
(* Units.  Every length (distance, frontage, rectangle edge), the          *)
(* relative-lowness and the slope-indicative value are fixed-point numbers *)
(* counted in tenths: Dec(9, 5) is 9.5.  Scores are exact rationals        *)
(* <<numerator, denominator>>, so that a comparison, a clamp or a rounding *)
(* is decided exactly as the arithmetic of the code decides it.            *)
(* Python's None is the empty tuple; a present value v is <<v>>.           *)
(***************************************************************************)
EXTENDS Integers, Sequences, FiniteSets, TLC

VARIABLES
    pc,     \* position of the call under study: "start" (arguments bound) or "done"
    args,   \* the arguments of the call
    res     \* its return value (None before the call returns)

vars == <<pc, args, res>>

---------------------------------------------------------------------------
(* Optional values, fixed-point literals, exact rationals.                 *)

None == <<>>
Some(v) == <<v>>
IsNone(x) == x = None
Val(x) == x[1]

\* the decimal literal i.f, in tenths
Dec(i, f) == i * 10 + f
\* a whole number of metres (or percent), in tenths
M(i) == Dec(i, 0)

Abs(x) == IF x < 0 THEN -x ELSE x

RECURSIVE GCD(_, _)
GCD(a, b) == IF b = 0 THEN a ELSE GCD(b, a % b)

\* the rational n/d (d > 0) in lowest terms
Rat(n, d) == LET g == GCD(Abs(n), d) IN <<n \div g, d \div g>>
RInt(i) == <<i, 1>>
RAdd(a, b) ==
    LET l == (a[2] \div GCD(a[2], b[2])) * b[2]
    IN  Rat(a[1] * (l \div a[2]) + b[1] * (l \div b[2]), l)
\* (p/q) * a
RScale(p, q, a) ==
    LET g1 == GCD(Abs(p), a[2])
        g2 == GCD(Abs(a[1]), q)
    IN  Rat((p \div g1) * (a[1] \div g2), (q \div g2) * (a[2] \div g1))
RLe(a, b) == a[1] * b[2] <= b[1] * a[2]
RMax(a, b) == IF RLe(a, b) THEN b ELSE a
RMin(a, b) == IF RLe(a, b) THEN a ELSE b

\* Python's round(x): to the nearest integer, a tie to the even one
PyRound(r) ==
    LET q   == r[1] \div r[2]
        rem == r[1] - q * r[2]
    IN  IF 2 * rem < r[2] THEN q
        ELSE IF 2 * rem > r[2] THEN q + 1
        ELSE IF q % 2 = 0 THEN q ELSE q + 1

---------------------------------------------------------------------------
(* flood_risk_pct and the risk-level label.                                *)

\* a variant that counts the tier bounds inclusively (d <= 100 m gives +25)
flood_risk_pct_inclusive(d_water_m, rel_low_m, slope_pct) ==
    LET w == IF IsNone(d_water_m) THEN 0
             ELSE LET d == Val(d_water_m)
                  IN  IF d <= M(10) THEN 60
                      ELSE IF d <= M(30) THEN 45
                      ELSE IF d <= M(100) THEN 25
                      ELSE IF d <= M(300) THEN 10
                      ELSE 0
        l == IF IsNone(rel_low_m) THEN 0
             ELSE LET v == Val(rel_low_m)
                  IN  IF v <= -Dec(2, 0) THEN 35
                      ELSE IF v <= -Dec(1, 0) THEN 20
                      ELSE IF v <= -Dec(0, 5) THEN 10
                      ELSE 0
        f == IF ~IsNone(slope_pct) /\ Val(slope_pct) <= Dec(0, 5) THEN 5 ELSE 0
        r == w + l + f
    IN  IF r < 100 THEN r ELSE 100

\* a variant that takes the relative-lowness term off the sum instead of
\* adding it (r -= 35 for r += 35)
flood_risk_pct_signflip(d_water_m, rel_low_m, slope_pct) ==
    LET w == IF IsNone(d_water_m) THEN 0
             ELSE LET d == Val(d_water_m)
                  IN  IF d < M(10) THEN 60
                      ELSE IF d < M(30) THEN 45
                      ELSE IF d < M(100) THEN 25
                      ELSE IF d < M(300) THEN 10
                      ELSE 0
        l == IF IsNone(rel_low_m) THEN 0
             ELSE LET v == Val(rel_low_m)
                  IN  IF v <= -Dec(2, 0) THEN 35
                      ELSE IF v <= -Dec(1, 0) THEN 20
                      ELSE IF v <= -Dec(0, 5) THEN 10
                      ELSE 0
        f == IF ~IsNone(slope_pct) /\ Val(slope_pct) <= Dec(0, 5) THEN 5 ELSE 0
        r == w - l + f
    IN  IF 100 < r THEN 100 ELSE r

\* a variant whose water tiers carry the increments in reverse (the nearest
\* tier gets the smallest increment)
flood_risk_pct_reversed(d_water_m, rel_low_m, slope_pct) ==
    LET w == IF IsNone(d_water_m) THEN 0
             ELSE LET d == Val(d_water_m)
                  IN  IF d < M(10) THEN 10
                      ELSE IF d < M(30) THEN 25
                      ELSE IF d < M(100) THEN 45
                      ELSE IF d < M(300) THEN 60
                      ELSE 0
        l == IF IsNone(rel_low_m) THEN 0
             ELSE LET v == Val(rel_low_m)
                  IN  IF v <= -Dec(2, 0) THEN 35
                      ELSE IF v <= -Dec(1, 0) THEN 20
                      ELSE IF v <= -Dec(0, 5) THEN 10
                      ELSE 0
        f == IF ~IsNone(slope_pct) /\ Val(slope_pct) <= Dec(0, 5) THEN 5 ELSE 0
        r == w + l + f
    IN  IF 100 < r THEN 100 ELSE r

flood_risk_pct(d_water_m, rel_low_m, slope_pct) ==
    LET r0 == 0
        r1 == IF IsNone(d_water_m) THEN r0
              ELSE LET d == Val(d_water_m)
                   IN  IF d < M(10) THEN r0 + 60
                       ELSE IF d < M(30) THEN r0 + 45
                       ELSE IF d < M(100) THEN r0 + 25
                       ELSE IF d < M(300) THEN r0 + 10
                       ELSE r0
        r2 == IF IsNone(rel_low_m) THEN r1
              ELSE LET v == Val(rel_low_m)
                   IN  IF v <= -Dec(2, 0) THEN r1 + 35
                       ELSE IF v <= -Dec(1, 0) THEN r1 + 20
                       ELSE IF v <= -Dec(0, 5) THEN r1 + 10
                       ELSE r1
        r3 == IF ~IsNone(slope_pct) /\ Val(slope_pct) <= Dec(0, 5)
              THEN r2 + 5 ELSE r2
    IN  IF 100 < r3 THEN 100 ELSE r3

\* "низкий" / "средний" / "высокий"
_risk_level_label(pct) ==
    IF pct < 35 THEN "low" ELSE IF pct < 65 THEN "medium" ELSE "high"

---------------------------------------------------------------------------
(* norm_inv_dist, the inverse-distance normaliser local to compute_all.    *)

\* a variant without the two clamps: the interpolation formula is used for
\* every distance
norm_inv_dist_unclamped(d, good, bad) ==
    IF IsNone(d) THEN RInt(30)
    ELSE Rat(100 * (bad - Val(d)), bad - good)

\* d is None or a distance; good < bad are distances; the result is a score
norm_inv_dist(d, good, bad) ==
    IF IsNone(d) THEN RInt(30)
    ELSE IF Val(d) <= good THEN RInt(100)
    ELSE IF Val(d) >= bad THEN RInt(0)
    ELSE Rat(100 * (bad - Val(d)), bad - good)

---------------------------------------------------------------------------
(* The feature classifier: raw Overpass elements and _collect_geoms.       *)
(*                                                                         *)
(* A raw element is [type, key, val, geometry, ring, dist]: its kind, its  *)
(* one tag key |-> val, whether it carries a "geometry" coordinate list,   *)
(* what that list is like (ring), and dist, the planar distance in UTM     *)
(* from the parcel to the element's geometry (what shapely's geom.distance *)
(* returns for it).  The elements of one response form a set: no result    *)
(* depends on their order or multiplicity.                                 *)
(*                                                                         *)
(* ring tells what shapely's constructors do with the coordinates:         *)
(*   "ok"      a simple ring or line: Polygon and LineString are built;    *)
(*   "selfx"   a ring that crosses itself: Polygon does not validate, it   *)
(*             builds the (invalid) polygon without raising;               *)
(*   "few"     two distinct points: Polygon raises (a ring needs four      *)
(*             coordinates, the closed list has three), LineString builds; *)
(*   "single"  one point: Polygon raises and LineString raises as well (a  *)
(*             line needs two coordinates).                                *)

ROAD_TAGS_MAJOR == {"motorway", "trunk", "primary", "secondary"}
ROAD_TAGS_ALL == ROAD_TAGS_MAJOR \cup {"tertiary", "unclassified", "residential", "service"}

\* tags.get(k): the value, or NoTag when the key is absent
NoTag == "<none>"
TagGet(el, k) == IF el.key = k THEN el.val ELSE NoTag
IsRoadAll(el) == TagGet(el, "highway") \in ROAD_TAGS_ALL /\ el.type = "way"
IsWater(el) ==
    \/ (TagGet(el, "waterway") # NoTag /\ TagGet(el, "waterway") # "")
    \/ TagGet(el, "natural") = "water"
    \/ TagGet(el, "landuse") = "reservoir"

\* the geometries one element contributes (none or one), each with the
\* element it was built from
GeomsOf(el) ==
    IF el.geometry
    THEN IF el.type = "way"
         \* the tags for which a way is closed and tried as a Polygon
         THEN IF \/ TagGet(el, "area") = "yes"
                 \/ TagGet(el, "natural") = "water"
                 \/ TagGet(el, "landuse") \in {"reservoir", "landfill", "industrial",
                                               "cemetery"}
              THEN IF el.ring \in {"ok", "selfx"}
                   THEN {[shape |-> "Polygon", of |-> el]}
                   ELSE {[shape |-> "LineString", of |-> el]}
              ELSE {[shape |-> "LineString", of |-> el]}
         ELSE {}
    ELSE IF el.type = "node"
         THEN {[shape |-> "Point", of |-> el]}
         ELSE {}

\* filter_fn(tags, typ): the lambdas of compute_all, by the layer they select
Apply(filter_fn, el) ==
    CASE filter_fn = "roads_major" ->
            TagGet(el, "highway") \in ROAD_TAGS_MAJOR /\ el.type = "way"
      [] filter_fn = "roads_all" -> IsRoadAll(el)
      [] filter_fn = "waters" -> IsWater(el)
      [] filter_fn = "powers" -> TagGet(el, "power") = "line"
      [] filter_fn = "subst" -> TagGet(el, "power") = "substation"
      [] filter_fn = "stops" ->
            \/ TagGet(el, "highway") = "bus_stop"
            \/ TagGet(el, "public_transport") = "stop_position"
      [] filter_fn = "places" -> TagGet(el, "place") \in {"hamlet", "village", "town"}
      [] filter_fn = "rails" -> TagGet(el, "railway") = "rail"
      [] filter_fn = "gas_pipes" ->
            TagGet(el, "man_made") = "pipeline" \/ TagGet(el, "pipeline") = "gas"
      [] filter_fn = "industrial" -> TagGet(el, "landuse") = "industrial"
      [] filter_fn = "landfill" -> TagGet(el, "landuse") = "landfill"
      [] filter_fn = "wastewater" ->
            \/ TagGet(el, "man_made") = "wastewater_plant"
            \/ TagGet(el, "amenity") \in {"sewage_plant", "waste_disposal"}
      [] filter_fn = "cemetery" ->
            TagGet(el, "amenity") = "grave_yard" \/ TagGet(el, "landuse") = "cemetery"

\* a Python dict is a function of its keys; {} is the function of no key
EmptyDict == [k \in {} |-> 0]

\* d.get(k, default)
DictGet(d, k, default) == IF k \in DOMAIN d THEN d[k] ELSE default

\* d.get(k), with the number that is found as Some(number)
DictGetOpt(d, k) == IF k \in DOMAIN d THEN Some(d[k]) ELSE None

\* None given where a dict is expected
NoneArg == [none |-> TRUE]

\* overpass_data.get("elements", [])
Elements(overpass_data) == DictGet(overpass_data, "elements", {})

_collect_geoms(overpass_data, filter_fn) ==
    UNION {GeomsOf(el) : el \in {x \in Elements(overpass_data) : Apply(filter_fn, x)}}

\* _collect_geoms ends in an exception instead of a list
CollectRaises(overpass_data, filter_fn) ==
    \E el \in Elements(overpass_data) :
        /\ Apply(filter_fn, el)
        \* LineString(coords) raises on a way of one coordinate, in the except
        \* branch or for a way that is no polygon: nothing catches it
        /\ el.geometry /\ el.type = "way" /\ el.ring = "single"

SetMin(S) == CHOOSE x \in S : \A y \in S : x <= y

\* a variant that reports an empty candidate list as the distance 0
min_distance_zero_for_empty(candidates) ==
    IF candidates = {} THEN Some(0)
    ELSE Some(SetMin({g.of.dist : g \in candidates}))

\* geom.distance(unary_union(candidates)): the least of the distances
min_distance(candidates) ==
    IF candidates = {} THEN None
    ELSE Some(SetMin({g.of.dist : g \in candidates}))

\* Python truthiness of an optional number, and "a or b"
Truthy(x) == ~IsNone(x) /\ Val(x) # 0

\* a variant with the operands of "or" exchanged
PyOrSwapped(a, b) == IF Truthy(b) THEN b ELSE a

PyOr(a, b) == IF Truthy(a) THEN a ELSE b

\* a variant that counts a frontage of exactly 0.5 m as road contact
TouchesRoadInclusive(facade_len_m) == facade_len_m >= Dec(0, 5)

\* touches_road = facade_len_m > 0.5
TouchesRoad(facade_len_m) == facade_len_m > Dec(0, 5)

---------------------------------------------------------------------------
(* build_risks: the ordered rule list.  A risk is a tuple <<text>> (the    *)
(* flood risks carry the percentage formatted into them: <<text, pct>>); a *)
(* checklist item is a string.  m is the metric set; m.risk_flood_pct is   *)
(* (m.get("risk") or {}).get("flood_pct"), None when absent.               *)

RECURSIVE Dedup(_)
\* list(dict.fromkeys(s)): the first occurrence of every item, in order
Dedup(s) ==
    IF s = <<>> THEN <<>>
    ELSE LET r == Dedup(SubSeq(s, 1, Len(s) - 1))
             x == s[Len(s)]
         IN  IF \E i \in 1..Len(r) : r[i] = x THEN r ELSE Append(r, x)

\* a variant that appends the item whether or not the condition holds
WhenAlways(cond, item) == <<item>>

When(cond, item) == IF cond THEN <<item>> ELSE <<>>

\* a variant with two independent ifs
IfIf(first, item1, second, item2) ==
    (IF first THEN <<item1>> ELSE <<>>) \o (IF second THEN <<item2>> ELSE <<>>)

\* if first: append item1 / elif second: append item2
IfElif(first, item1, second, item2) ==
    IF first THEN <<item1>> ELSE IF second THEN <<item2>> ELSE <<>>

\* a variant that also fires at exactly the limit
NearInclusive(d, limit) == ~IsNone(d) /\ Val(d) <= limit

\* m.get(k) is not None and float(m[k]) < limit
Near(d, limit) == ~IsNone(d) /\ Val(d) < limit

RECURSIVE JoinRulesReversed(_)
\* a variant that puts what a later rule appended in front
JoinRulesReversed(rules) ==
    IF rules = <<>> THEN <<>> ELSE JoinRulesReversed(Tail(rules)) \o Head(rules)

RECURSIVE JoinRules(_)
\* the appends of the rules, in the order the rules are evaluated
JoinRules(rules) ==
    IF rules = <<>> THEN <<>> ELSE Head(rules) \o JoinRules(Tail(rules))

\* variant: the defaults of the elevation statistics are written into "dem"
AfterBuildRisksFillsDem(m, fr) ==
    [m EXCEPT !.risk_flood_pct = Some(fr),
              !.dem = [slope_indicative_pct |-> DictGet(m.dem, "slope_indicative_pct", 0),
                       rel_lowness_m |-> DictGet(m.dem, "rel_lowness_m", 0)]]

\* the writes of build_risks to the dict it is given:
\* m.setdefault("risk", {})["flood_pct"] = fr, and nothing else
AfterBuildRisks(m, fr) == [m EXCEPT !.risk_flood_pct = Some(fr)]

build_risks(m) ==
    LET dem == m.dem
        fr == IF IsNone(m.risk_flood_pct)
              THEN flood_risk_pct(m.d_water_m, DictGetOpt(dem, "rel_lowness_m"),
                                  DictGetOpt(dem, "slope_indicative_pct"))
              ELSE Val(m.risk_flood_pct)
        \* float(dem.get("slope_indicative_pct") or 0.0)
        slope == DictGet(dem, "slope_indicative_pct", 0)
        narrow == m.touches_road /\ m.facade_len_m < M(8)
        far_infra == \/ (Truthy(m.d_stop_m) /\ Val(m.d_stop_m) > M(2000))
                     \/ (Truthy(m.d_place_m) /\ Val(m.d_place_m) > M(5000))
        risks == JoinRules(<<
            When(~m.touches_road, <<"no_road_adjacency">>),
            IfElif(fr >= 65, <<"flood_high", fr>>, fr >= 35, <<"flood_medium", fr>>),
            When(Near(m.d_water_m, M(100)), <<"water_zone_lt_100m">>),
            When(Near(m.d_power_m, M(50)), <<"power_line_lt_50m">>),
            When(Near(m.d_rail_m, M(200)), <<"rail_lt_200m">>),
            When(Near(m.d_gas_m, M(50)), <<"gas_pipeline_lt_50m">>),
            When(Near(m.d_industrial_m, M(500)), <<"industrial_lt_500m">>),
            When(Near(m.d_landfill_m, M(1000)), <<"landfill_lt_1km">>),
            When(Near(m.d_wastewater_m, M(700)), <<"wastewater_lt_700m">>),
            When(Near(m.d_cemetery_m, M(300)), <<"cemetery_lt_300m">>),
            IfElif(slope >= Dec(8, 0), <<"slope_steep">>,
                   slope <= Dec(0, 3), <<"slope_very_small">>),
            When(narrow, <<"narrow_frontage_lt_8m">>),
            When(far_infra, <<"weak_infrastructure">>) >>)
        checks == JoinRules(<<
            When(~m.touches_road, "check_legal_access"),
            <<"check_flood_maps">>,
            When(Near(m.d_water_m, M(100)), "check_water_protection_zone"),
            When(Near(m.d_power_m, M(50)), "check_power_line_zone"),
            When(Near(m.d_rail_m, M(200)), "check_rail_noise"),
            When(Near(m.d_gas_m, M(50)), "check_gas_zone"),
            When(Near(m.d_industrial_m, M(500)), "check_industrial_szz"),
            When(Near(m.d_landfill_m, M(1000)), "check_landfill_status"),
            When(Near(m.d_wastewater_m, M(700)), "check_wastewater_szz"),
            When(Near(m.d_cemetery_m, M(300)), "check_cemetery_szz"),
            IfElif(slope >= Dec(8, 0), "check_grading_drainage",
                   slope <= Dec(0, 3), "check_storm_drain"),
            When(narrow, "check_gate_placement"),
            When(far_infra, "check_travel_time") >>)
    IN  [risks |-> risks, checks |-> Dedup(checks),
         metric_set |-> AfterBuildRisks(m, fr)]

---------------------------------------------------------------------------
(* compute_all.  Its arguments are the parcel, osm_data and dem_stats.     *)
(* The parcel is given by what shapely computes of it: parcel.area_m2, the *)
(* four edge lengths parcel.mrr_edges of its minimum rotated rectangle,    *)
(* and parcel.inter_len, the length of its boundary inside the union of    *)
(* the 10 m buffers of the given roads (0 for an empty intersection).      *)
(* dem_stats carries the two fields compute_all reads.                     *)

\* the sub-scores (metrics.py:327-331)
ScoreAccess(d_road) == norm_inv_dist(PyOr(d_road, Some(M(5000))), M(300), M(5000))

\* a variant of the slope sub-score without its clamps
ScoreSlopeUnclamped(slope_pct) ==
    RAdd(RInt(100), RScale(-1, 1, Rat(Abs(slope_pct - M(3)) * 15, 10)))

ScoreSlope(slope_pct) ==
    RMax(RInt(0),
         RAdd(RInt(100),
              RScale(-1, 1, RMin(RInt(100), Rat(Abs(slope_pct - M(3)) * 15, 10)))))

\* a variant of the flood sub-score that reports the risk percentage itself
ScoreFloodNotInverted(flood_pct) == RMax(RInt(0), RInt(flood_pct))

ScoreFlood(flood_pct) == RMax(RInt(0), RInt(100 - flood_pct))

ScoreInfra(d_stop, d_place) ==
    RAdd(RScale(6, 10, norm_inv_dist(PyOr(d_stop, Some(M(4000))), M(500), M(4000))),
         RScale(4, 10, norm_inv_dist(PyOr(d_place, Some(M(15000))), M(2000), M(15000))))

ScorePower(d_power) == norm_inv_dist(PyOr(d_power, Some(M(5000))), M(300), M(5000))

\* a variant of the composite that leaves the power term out
ScoreTotalWithoutPower(access, flood, slope, infra, power, touches_road) ==
    PyRound(RAdd(RScale(25, 100, access),
            RAdd(RScale(20, 100, flood),
            RAdd(RScale(20, 100, slope),
            RAdd(RScale(15, 100, infra),
                 RScale(10, 100, RInt(IF touches_road THEN 100 ELSE 40)))))))

\* the composite (metrics.py:333-336)
ScoreTotal(access, flood, slope, infra, power, touches_road) ==
    PyRound(RAdd(RScale(25, 100, access),
            RAdd(RScale(20, 100, flood),
            RAdd(RScale(20, 100, slope),
            RAdd(RScale(15, 100, infra),
            RAdd(RScale(10, 100, power),
                 RScale(10, 100, RInt(IF touches_road THEN 100 ELSE 40))))))))

\* the layers compute_all collects
Filters ==
    {"roads_major", "roads_all", "waters", "powers", "subst", "stops", "places",
     "rails", "gas_pipes", "industrial", "landfill", "wastewater", "cemetery"}

\* a variant that takes the two largest edges: sorted(edges)[-2:]
TwoLargest(edges) ==
    LET i1 == CHOOSE i \in 1..4 : \A j \in 1..4 : edges[i] >= edges[j]
        i2 == CHOOSE i \in (1..4) \ {i1} : \A j \in (1..4) \ {i1} : edges[i] >= edges[j]
    IN  <<edges[i2], edges[i1]>>

\* sorted(edges)[:2]
TwoSmallest(edges) ==
    LET i1 == CHOOSE i \in 1..4 : \A j \in 1..4 : edges[i] <= edges[j]
        i2 == CHOOSE i \in (1..4) \ {i1} : \A j \in (1..4) \ {i1} : edges[i] <= edges[j]
    IN  <<edges[i1], edges[i2]>>

\* an empty geometry has no centroid: project_to_utm raises on it
Malformed(parcel) == "malformed" \in DOMAIN parcel

compute_all(parcel, osm_data, dem_stats) ==
    IF Malformed(parcel)
    THEN [raised |-> "IndexError"]
    ELSE IF osm_data = NoneArg
    THEN [raised |-> "AttributeError"]
    ELSE IF \E filter_fn \in Filters : CollectRaises(osm_data, filter_fn)
    THEN [raised |-> "ValueError"]
    ELSE IF dem_stats = NoneArg
    THEN [raised |-> "AttributeError"]
    ELSE
    LET area_m2 == parcel.area_m2
        area_ha == Rat(area_m2, 10000)
        \* the OSM layers, already in UTM (dist is the projected distance)
        r_major_u == _collect_geoms(osm_data, "roads_major")
        r_all_u == _collect_geoms(osm_data, "roads_all")
        waters_u == _collect_geoms(osm_data, "waters")
        powers_u == _collect_geoms(osm_data, "powers")
                        \cup _collect_geoms(osm_data, "subst")
        stops_u == _collect_geoms(osm_data, "stops")
        places_u == _collect_geoms(osm_data, "places")
        rails_u == _collect_geoms(osm_data, "rails")
        gas_u == _collect_geoms(osm_data, "gas_pipes")
        industrial_u == _collect_geoms(osm_data, "industrial")
        landfill_u == _collect_geoms(osm_data, "landfill")
        wastewater_u == _collect_geoms(osm_data, "wastewater")
        cemetery_u == _collect_geoms(osm_data, "cemetery")
        d_road == PyOr(min_distance(r_major_u), min_distance(r_all_u))
        d_water == min_distance(waters_u)
        d_power == min_distance(powers_u)
        d_stop == min_distance(stops_u)
        d_place == min_distance(places_u)
        d_rail == min_distance(rails_u)
        d_gas == min_distance(gas_u)
        d_industrial == min_distance(industrial_u)
        d_landfill == min_distance(landfill_u)
        d_wastewater == min_distance(wastewater_u)
        d_cemetery == min_distance(cemetery_u)
        \* road contact and frontage
        facade_len_m == IF r_all_u # {} THEN parcel.inter_len ELSE 0
        touches_road == IF r_all_u # {} THEN TouchesRoad(facade_len_m) ELSE FALSE
        \* the 10 x 10 house
        wh == TwoSmallest(parcel.mrr_edges)
        can_house_10x10 == wh[1] >= M(10) /\ wh[2] >= M(10)
        \* slope and flooding
        slope_pct == DictGet(dem_stats, "slope_indicative_pct", M(5))
        flood_pct == flood_risk_pct(d_water, Some(DictGet(dem_stats, "rel_lowness_m", 0)),
                                    Some(slope_pct))
        score_access == ScoreAccess(d_road)
        score_slope == ScoreSlope(slope_pct)
        score_flood == ScoreFlood(flood_pct)
        score_infra == ScoreInfra(d_stop, d_place)
        score_power == ScorePower(d_power)
        score_total == ScoreTotal(score_access, score_flood, score_slope,
                                  score_infra, score_power, touches_road)
        tmp == [touches_road |-> touches_road, facade_len_m |-> facade_len_m,
                d_road_m |-> d_road, d_water_m |-> d_water, d_stop_m |-> d_stop,
                d_place_m |-> d_place, d_power_m |-> d_power, d_rail_m |-> d_rail,
                d_gas_m |-> d_gas, d_industrial_m |-> d_industrial,
                d_landfill_m |-> d_landfill, d_wastewater_m |-> d_wastewater,
                d_cemetery_m |-> d_cemetery, dem |-> dem_stats,
                risk_flood_pct |-> Some(flood_pct)]
        rc == build_risks(tmp)
    IN  [area_m2 |-> area_m2, area_ha |-> area_ha,
         touches_road |-> touches_road, facade_len_m |-> facade_len_m,
         can_house_10x10 |-> can_house_10x10,
         d_road_m |-> d_road, d_water_m |-> d_water, d_power_m |-> d_power,
         d_stop_m |-> d_stop, d_place_m |-> d_place, d_rail_m |-> d_rail,
         d_gas_m |-> d_gas, d_industrial_m |-> d_industrial,
         d_landfill_m |-> d_landfill, d_wastewater_m |-> d_wastewater,
         d_cemetery_m |-> d_cemetery,
         \* "dem": dem_stats is the caller's object, as build_risks left it
         dem |-> rc.metric_set.dem,
         risk |-> [flood_pct |-> flood_pct],
         score |-> [access |-> score_access, flood |-> score_flood,
                    slope |-> score_slope, infra |-> score_infra,
                    power |-> score_power, total |-> score_total],
         risks_list |-> rc.risks, checks_list |-> rc.checks]

---------------------------------------------------------------------------
(* The pure function flood_risk_pct on bounded inputs.                     *)

\* how many tenths around every tier bound are enumerated
Jitter == 1

Around(S) == {t + e : t \in S, e \in (-Jitter)..Jitter}

WaterDistSamples ==
    {None} \cup {Some(d) : d \in {0, M(5), M(1000)} \cup Around({M(10), M(30), M(100), M(300)})}
RelLowSamples ==
    {None} \cup {Some(v) : v \in {-Dec(1, 5), 0, Dec(1, 2)}
                              \cup Around({-Dec(2, 0), -Dec(1, 0), -Dec(0, 5)})}
InitFlood ==
    LET SlopeSamples ==
            {None} \cup {Some(s) : s \in {0, Dec(0, 4), M(3), M(100)} \cup Around({Dec(0, 5)})}
    IN
        /\ pc = "start"
        /\ args \in [d_water_m : WaterDistSamples, rel_low_m : RelLowSamples,
                     slope_pct : SlopeSamples]
        /\ res = None

FloodRisk ==
    /\ pc = "start"
    /\ LET pct == flood_risk_pct(args.d_water_m, args.rel_low_m, args.slope_pct)
       IN  res' = [flood_pct |-> pct, label |-> _risk_level_label(pct)]
    /\ pc' = "done"
    /\ UNCHANGED args

NextFlood == FloodRisk

SpecFlood == InitFlood /\ [][NextFlood]_vars

---------------------------------------------------------------------------
(* The pure function norm_inv_dist on bounded inputs.                      *)

\* the (good, bad) pairs compute_all uses, and one narrow pair
NormPairs ==
    {<<M(300), M(5000)>>, <<M(500), M(4000)>>, <<M(2000), M(15000)>>, <<M(1), M(2)>>}

NormDistSamples ==
    {None} \cup {Some(d) : d \in {x \in {0, Dec(1, 5), M(2650), M(20000)}
                                   \cup Around({p[1] : p \in NormPairs})
                                   \cup Around({p[2] : p \in NormPairs}) : x >= 0}}

InitNorm ==
    /\ pc = "start"
    /\ \E d \in NormDistSamples, p \in NormPairs :
          args = [d |-> d, good |-> p[1], bad |-> p[2]]
    /\ res = None

NormInvDist ==
    /\ pc = "start"
    /\ res' = norm_inv_dist(args.d, args.good, args.bad)
    /\ pc' = "done"
    /\ UNCHANGED args

NextNorm == NormInvDist

SpecNorm == InitNorm /\ [][NextNorm]_vars

---------------------------------------------------------------------------
(* One scoring request: compute_all on a bounded parcel, Overpass response *)
(* and elevation statistics.                                               *)

\* the most elements in one Overpass response
MaxElems == 3

El(type, key, val, geometry, ring, dist) ==
    [type |-> type, key |-> key, val |-> val, geometry |-> geometry,
     ring |-> ring, dist |-> dist]

RECURSIVE SubsetsUpTo(_, _)
SubsetsUpTo(S, k) ==
    IF k = 0 THEN {{}}
    ELSE LET T == SubsetsUpTo(S, k - 1)
         IN  T \cup {t \cup {x} : t \in T, x \in S}

OsmSamples ==
    LET ElemSamples ==
            {El("way", "highway", "primary", TRUE, "ok", d) : d \in {0, M(200), M(2650)}}
            \cup {El("way", "highway", "residential", TRUE, "ok", d) : d \in {0, M(5), M(1000)}}
            \cup {El("way", "highway", "primary", FALSE, "ok", 0),
                  El("way", "highway", "footway", TRUE, "ok", 0)}
            \cup {El("way", "waterway", "stream", TRUE, "ok", d) : d \in {M(5), M(100), M(500)}}
            \cup {El("way", "natural", "water", TRUE, r, M(20)) : r \in {"ok", "few", "single"}}
            \cup {El("way", "power", "line", TRUE, "ok", d) : d \in {0, M(40), M(2650)}}
            \cup {El("node", "power", "substation", FALSE, "ok", M(200))}
            \cup {El("node", "highway", "bus_stop", FALSE, "ok", d) : d \in {0, M(400), M(3000)}}
            \cup {El("node", "place", "village", FALSE, "ok", d) : d \in {0, M(1000), M(8500)}}
            \cup {El("way", "railway", "rail", TRUE, "ok", M(100)),
                  El("way", "man_made", "pipeline", TRUE, "ok", M(40)),
                  El("way", "landuse", "industrial", TRUE, "ok", M(400)),
                  El("way", "landuse", "landfill", TRUE, "ok", M(900)),
                  El("way", "man_made", "wastewater_plant", TRUE, "ok", M(600)),
                  El("way", "landuse", "cemetery", TRUE, "ok", M(200))}
    IN
        {[elements |-> E] : E \in SubsetsUpTo(ElemSamples, MaxElems)}

Site(area_m2, short, long, slope_indicative_pct, rel_lowness_m) ==
    [area_m2 |-> area_m2, mrr_edges |-> <<short, long, short, long>>,
     dem_stats |-> [slope_indicative_pct |-> slope_indicative_pct,
                    rel_lowness_m |-> rel_lowness_m]]

Init ==
    LET \* the boundary length a road buffer can cut off: nothing unless a road lies
        \* within 10 m of the parcel
        InterLenSamples(osm_data) ==
            IF \E g \in _collect_geoms(osm_data, "roads_all") : g.of.dist < M(10)
            THEN {0, Dec(0, 5), Dec(0, 6), M(25)}
            ELSE {0}
    IN
        LET \* the parcels: area, minimum rotated rectangle, and the elevation statistics
            \* compute_dem_stats returns for the parcel (the slope clipped to [0,100])
            SiteSamples ==
                {Site(600, M(20), M(30), M(3), 0),
                 Site(190, Dec(9, 5), M(20), Dec(0, 4), -Dec(1, 5)),
                 Site(1500, M(30), M(50), 0, -Dec(2, 0)),
                 Site(100, M(10), M(10), M(9), Dec(0, 2)),
                 Site(2400, M(40), M(60), M(100), 0)}
        IN
            /\ pc = "start"
            /\ \E osm_data \in OsmSamples, site \in SiteSamples :
                  \E len \in InterLenSamples(osm_data) :
                      args = [parcel |-> [area_m2 |-> site.area_m2,
                                          mrr_edges |-> site.mrr_edges,
                                          inter_len |-> len],
                              osm_data |-> osm_data, dem_stats |-> site.dem_stats]
            /\ res = None

ComputeAll ==
    /\ pc = "start"
    /\ res' = compute_all(args.parcel, args.osm_data, args.dem_stats)
    /\ pc' = IF "raised" \in DOMAIN res' THEN "raised" ELSE "done"
    \* the result shares dem_stats with the caller
    /\ args' = IF "raised" \in DOMAIN res' THEN args
               ELSE [args EXCEPT !.dem_stats = res'.dem]

Next == ComputeAll

Spec == Init /\ [][Next]_vars

---------------------------------------------------------------------------
(* compute_all on the inputs a caller can hand over besides the ordinary   *)
(* ones: an empty polygon, None or {} for the Overpass response, None, {}  *)
(* or a partial dict for the elevation statistics.                         *)

\* the most elements in one of these Overpass responses
MaxInputElems == 2

ParcelInputs ==
    {[malformed |-> "empty"],
     [area_m2 |-> 600, mrr_edges |-> <<M(20), M(30), M(20), M(30)>>, inter_len |-> 0]}

OsmInputs ==
    LET InputElems ==
            {El("way", "highway", "residential", TRUE, "ok", 0),
             El("way", "waterway", "stream", TRUE, "ok", M(100)),
             El("way", "natural", "water", TRUE, "ok", M(20)),
             El("way", "natural", "water", TRUE, "single", M(20))}
    IN
        {NoneArg, EmptyDict}
        \cup {[elements |-> E] : E \in SubsetsUpTo(InputElems, MaxInputElems)}

DemInputs ==
    {NoneArg, EmptyDict,
     [slope_indicative_pct |-> Dec(0, 2)],
     [rel_lowness_m |-> -Dec(2, 0)],
     [slope_indicative_pct |-> M(3), rel_lowness_m |-> 0]}

InitInputs ==
    /\ pc = "start"
    /\ \E parcel \in ParcelInputs, osm_data \in OsmInputs, dem_stats \in DemInputs :
          args = [parcel |-> parcel, osm_data |-> osm_data, dem_stats |-> dem_stats]
    /\ res = None

SpecInputs == InitInputs /\ [][Next]_vars

---------------------------------------------------------------------------
(* Two invocations of compute_all on the same argument objects, in worker  *)
(* threads (asyncio.to_thread).  pc and res hold one entry per invocation, *)
(* args the objects both were given.  An invocation reads the arguments    *)
(* and writes what build_risks writes through the dict it shares.          *)

Callers == {1, 2}

InitTwo ==
    /\ pc = [i \in Callers |-> "start"]
    /\ \E parcel \in ParcelInputs, osm_data \in OsmInputs, dem_stats \in DemInputs :
          args = [parcel |-> parcel, osm_data |-> osm_data, dem_stats |-> dem_stats]
    /\ res = [i \in Callers |-> None]

Call(i) ==
    /\ pc[i] = "start"
    /\ LET r == compute_all(args.parcel, args.osm_data, args.dem_stats)
       IN  /\ res' = [res EXCEPT ![i] = r]
           /\ pc' = [pc EXCEPT ![i] = IF "raised" \in DOMAIN r THEN "raised" ELSE "done"]
           /\ args' = IF "raised" \in DOMAIN r THEN args
                      ELSE [args EXCEPT !.dem_stats = r.dem]

NextTwo == \E i \in Callers : Call(i)

SpecTwo == InitTwo /\ [][NextTwo]_vars

---------------------------------------------------------------------------
(* build_risks on its own, on metric sets around the limit of every rule.  *)

MetricSet(facade_len_m, flood_pct, d_water, d_power, d_rail, d_gas, d_industrial, d_landfill, d_wastewater, d_cemetery, slope_pct, rel_low, d_stop, d_place) ==
    [touches_road |-> TouchesRoad(facade_len_m), facade_len_m |-> facade_len_m,
     d_road_m |-> None, d_water_m |-> d_water, d_stop_m |-> d_stop,
     d_place_m |-> d_place, d_power_m |-> d_power, d_rail_m |-> d_rail,
     d_gas_m |-> d_gas, d_industrial_m |-> d_industrial,
     d_landfill_m |-> d_landfill, d_wastewater_m |-> d_wastewater,
     d_cemetery_m |-> d_cemetery,
     dem |-> [slope_indicative_pct |-> slope_pct, rel_lowness_m |-> rel_low],
     risk_flood_pct |-> flood_pct]

\* a distance just inside a limit and one exactly on it
AtLimit(limit) == {Some(limit - 1), Some(limit)}

\* a metric set on which no rule fires
QuietMetricSet ==
    MetricSet(M(25), Some(0), None, None, None, None, None, None, None, None,
              M(3), 0, None, None)

\* the metrics build_risks compares with a limit
LimitOf ==
    [d_water_m |-> M(100), d_power_m |-> M(50), d_rail_m |-> M(200),
     d_gas_m |-> M(50), d_industrial_m |-> M(500), d_landfill_m |-> M(1000),
     d_wastewater_m |-> M(700), d_cemetery_m |-> M(300),
     d_stop_m |-> M(2000), d_place_m |-> M(5000)]

InitRisks ==
    LET \* the quiet metric set with one metric moved around its limit, or absent
        EdgeMetricSets ==
            UNION {{[QuietMetricSet EXCEPT ![k] = d] :
                        d \in {None, Some(0)} \cup {Some(x) : x \in Around({LimitOf[k]})}} :
                   k \in DOMAIN LimitOf}
            \cup {[QuietMetricSet EXCEPT !.dem.slope_indicative_pct = x] :
                    x \in {0} \cup Around({Dec(0, 3), M(8)})}
            \cup {[QuietMetricSet EXCEPT !.facade_len_m = x, !.touches_road = TouchesRoad(x)] :
                    x \in Around({Dec(0, 5), M(8)})}
            \cup {[QuietMetricSet EXCEPT !.risk_flood_pct = None, !.d_water_m = d,
                                         !.dem.rel_lowness_m = r] :
                    d \in {None, Some(M(5)), Some(M(200))}, r \in {0, -Dec(1, 5), -M(2)}}
    IN
        LET \* every combination of rules firing and not firing
            CoreMetricSets ==
                {MetricSet(facade_len_m, flood_pct, d_water, d_power, d_rail, d_gas, d_industrial,
                           d_landfill, d_wastewater, d_cemetery, slope_pct, 0, d_stop, d_place) :
                    facade_len_m \in {0, Dec(7, 9), M(8)},
                    flood_pct \in {None, Some(34), Some(35), Some(64), Some(65)},
                    d_water \in AtLimit(M(100)), d_power \in AtLimit(M(50)),
                    d_rail \in AtLimit(M(200)), d_gas \in AtLimit(M(50)),
                    d_industrial \in AtLimit(M(500)), d_landfill \in AtLimit(M(1000)),
                    d_wastewater \in AtLimit(M(700)), d_cemetery \in AtLimit(M(300)),
                    slope_pct \in {Dec(0, 3), M(3), M(8)},
                    d_stop \in {Some(M(2000)), Some(M(2000) + 1)},
                    d_place \in {Some(M(5000)), Some(M(5000) + 1)}}
        IN
            /\ pc = "start"
            /\ \E m \in CoreMetricSets \cup EdgeMetricSets : args = [metric_set |-> m]
            /\ res = None

BuildRisks ==
    /\ pc = "start"
    /\ LET r == build_risks(args.metric_set)
       IN  /\ res' = [risks |-> r.risks, checks |-> r.checks]
           /\ args' = [args EXCEPT !.metric_set = r.metric_set]
    /\ pc' = "done"

NextRisks == BuildRisks

SpecRisks == InitRisks /\ [][NextRisks]_vars

---------------------------------------------------------------------------
(* The places that print the flood percentage with a level: the caption of *)
(* format_brief, the explanation of format_explain and the PDF report.     *)
(* Each is given by the text it makes of flood_pct: the dash for None, or  *)
(* the percentage and the level word.                                      *)

\* format_brief: flood_txt
flood_txt(flood_pct) ==
    IF ~IsNone(flood_pct)
    THEN <<Val(flood_pct),
           IF Val(flood_pct) < 35 THEN "low"
           ELSE IF Val(flood_pct) < 65 THEN "medium" ELSE "high">>
    ELSE <<"dash">>

\* a variant whose medium level starts above 35
flevel_inclusive(f) ==
    IF IsNone(f) THEN "dash"
    ELSE IF Val(f) <= 35 THEN "low"
    ELSE IF Val(f) < 65 THEN "medium" ELSE "high"

\* format_explain: flevel
flevel(f) ==
    IF IsNone(f) THEN "dash"
    ELSE IF Val(f) < 35 THEN "low"
    ELSE IF Val(f) < 65 THEN "medium" ELSE "high"

\* render_report (pdf.py): flood_level
flood_level(flood_pct) ==
    IF IsNone(flood_pct) THEN "dash"
    ELSE IF Val(flood_pct) < 35 THEN "low"
    ELSE IF Val(flood_pct) < 65 THEN "medium" ELSE "high"

\* one metric set shown everywhere: the label, the caption, the explanation,
\* the report, and the risks build_risks lists for it
InitLevels ==
    /\ pc = "start"
    /\ \E flood_pct \in 0..100 :
          args = [metric_set |-> [QuietMetricSet EXCEPT !.risk_flood_pct = Some(flood_pct)]]
    /\ res = None

SurfaceFlood ==
    /\ pc = "start"
    /\ LET flood_pct == args.metric_set.risk_flood_pct
           r == build_risks(args.metric_set)
       IN  /\ res' = [label |-> _risk_level_label(Val(flood_pct)),
                      brief |-> flood_txt(flood_pct),
                      explain |-> flevel(flood_pct),
                      report |-> flood_level(flood_pct),
                      risks |-> r.risks, checks |-> r.checks]
           /\ args' = [args EXCEPT !.metric_set = r.metric_set]
    /\ pc' = "done"

NextLevels == SurfaceFlood

SpecLevels == InitLevels /\ [][NextLevels]_vars

---------------------------------------------------------------------------
(* dem.py: the elevation lookup.  A sample point is a number, latlons the  *)
(* list of points.  What the cache and the two providers answer is given   *)
(* by net: for each provider one answer per batch, in batch order.  An     *)
(* answer is a cache hit with the cached list, an exception of the request *)
(* (no connection, timeout, a body that is not JSON), a status other than  *)
(* 200, or a JSON body with its "status" and the elevations of its         *)
(* "results" (None for a null entry).  A fetch returns the list, or raises,*)
(* and in both cases has stored some batches in the cache (writes).        *)

Cached(results) == [kind |-> "cached", status |-> "", results |-> results]
Json(status, results) == [kind |-> "json", status |-> status, results |-> results]
HttpError == [kind |-> "http_error", status |-> "", results |-> <<>>]
RequestException == [kind |-> "exception", status |-> "", results |-> <<>>]

Fetched(elev, writes) == [raised |-> FALSE, elev |-> elev, writes |-> writes]
Raised(writes) == [raised |-> TRUE, elev |-> <<>>, writes |-> writes]

\* list(_chunk(lst, size))
_chunk(lst, size) ==
    [b \in 1..((Len(lst) + size - 1) \div size) |->
        SubSeq(lst, (b - 1) * size + 1,
               IF b * size < Len(lst) THEN b * size ELSE Len(lst))]

\* while len(arr) < len(batch): arr.append(None)
Pad(arr, n) ==
    IF Len(arr) < n THEN arr \o [i \in 1..(n - Len(arr)) |-> None] ELSE arr

RECURSIVE OpenTopoFrom(_, _, _, _)
\* the loop of _fetch_opentopo from batch b on
OpenTopoFrom(batches, answers, b, acc) ==
    IF b > Len(batches) THEN acc
    ELSE LET answer == answers[b]
             arr == Pad(answer.results, Len(batches[b]))
         IN  IF answer.kind = "cached"
             THEN OpenTopoFrom(batches, answers, b + 1,
                               Fetched(acc.elev \o answer.results, acc.writes))
             ELSE IF answer.kind \in {"exception", "http_error"}
             THEN Raised(acc.writes)
             ELSE IF answer.status # "OK" /\ answer.results = <<>>
             THEN Raised(acc.writes)
             ELSE OpenTopoFrom(batches, answers, b + 1,
                               Fetched(acc.elev \o arr,
                                       Append(acc.writes,
                                              [key |-> <<"opentopo", batches[b]>>,
                                               data |-> arr])))

_fetch_opentopo(latlons, answers) ==
    OpenTopoFrom(_chunk(latlons, 90), answers, 1, Fetched(<<>>, <<>>))

RECURSIVE OpenElevationFrom(_, _, _, _)
\* the loop of _fetch_open_elevation from batch b on
OpenElevationFrom(batches, answers, b, acc) ==
    IF b > Len(batches) THEN acc
    ELSE LET answer == answers[b]
             arr == Pad(answer.results, Len(batches[b]))
         IN  IF answer.kind = "cached"
             THEN OpenElevationFrom(batches, answers, b + 1,
                                    Fetched(acc.elev \o answer.results, acc.writes))
             ELSE IF answer.kind \in {"exception", "http_error"}
             THEN Raised(acc.writes)
             ELSE OpenElevationFrom(batches, answers, b + 1,
                                    Fetched(acc.elev \o arr,
                                            Append(acc.writes,
                                                   [key |-> <<"openelev", batches[b]>>,
                                                    data |-> arr])))

_fetch_open_elevation(latlons, answers) ==
    OpenElevationFrom(_chunk(latlons, 100), answers, 1, Fetched(<<>>, <<>>))

\* try OpenTopoData, on any exception Open-Elevation, on any exception nulls
_get_elevations(latlons, net) ==
    LET first == _fetch_opentopo(latlons, net.opentopo)
        second == _fetch_open_elevation(latlons, net.openelev)
    IN  IF ~first.raised THEN [elev |-> first.elev, writes |-> first.writes]
        ELSE IF ~second.raised
        THEN [elev |-> second.elev, writes |-> first.writes \o second.writes]
        ELSE [elev |-> [i \in 1..Len(latlons) |-> None],
              writes |-> first.writes \o second.writes]

---------------------------------------------------------------------------
(* dem.py: compute_dem_stats.  The sample points are given by pts_inside,  *)
(* one entry per point: whether the parcel contains it.  Elevations are in *)
(* tenths of a metre; the statistics are exact rationals <<n, d>> of the   *)
(* same unit.  The standard deviation is carried by its square:            *)
(* slope_indicative_pct = [sq |-> v] stands for the square root of v.      *)

RECURSIVE SeqSum(_)
SeqSum(s) == IF s = <<>> THEN 0 ELSE Head(s) + SeqSum(Tail(s))

RECURSIVE Insert(_, _)
Insert(x, sorted) ==
    IF sorted = <<>> THEN <<x>>
    ELSE IF x <= Head(sorted) THEN <<x>> \o sorted
    ELSE <<Head(sorted)>> \o Insert(x, Tail(sorted))

RECURSIVE Sort(_)
\* np.sort
Sort(s) == IF s = <<>> THEN <<>> ELSE Insert(Head(s), Sort(Tail(s)))

\* np.median
Median(arr) ==
    LET a == Sort(arr)
        n == Len(a)
    IN  IF n % 2 = 1 THEN RInt(a[(n + 1) \div 2])
        ELSE Rat(a[n \div 2] + a[n \div 2 + 1], 2)

\* np.percentile(arr, 95): linear interpolation at position 0.95 * (n - 1)
Percentile95(arr) ==
    LET a == Sort(arr)
        n == Len(a)
        lo == (19 * (n - 1)) \div 20 + 1
        r == (19 * (n - 1)) % 20
    IN  IF r = 0 THEN RInt(a[lo])
        ELSE Rat(20 * a[lo] + r * (a[lo + 1] - a[lo]), 20)

\* np.diff
Diff(a) == [i \in 1..(Len(a) - 1) |-> a[i + 1] - a[i]]

\* np.std(d) ** 2: the mean of the squares less the square of the mean
Variance(d) ==
    LET k == Len(d)
    IN  Rat(k * SeqSum([i \in 1..k |-> d[i] * d[i]]) - SeqSum(d) * SeqSum(d), k * k)

\* the record returned when no elevation is known
ZeroStats ==
    [elev_min |-> RInt(0), elev_max |-> RInt(0), elev_med |-> RInt(0),
     elev_p95 |-> RInt(0), slope_indicative_pct |-> [sq |-> RInt(0)],
     rel_lowness_m |-> RInt(0)]

\* elev = [e for e in elev if e is not None]
NonNull(elev) == SelectSeq(elev, LAMBDA e : e # None)

RECURSIVE Populations(_, _, _, _, _)
\* the loop over range(len(pts_inside)) from index i on, j the index into elev
Populations(pts_inside, elev, i, j, acc) ==
    IF i > Len(pts_inside) \/ j > Len(elev) THEN acc
    ELSE LET h == elev[j]
         IN  IF h = None THEN Populations(pts_inside, elev, i + 1, j + 1, acc)
             ELSE Populations(pts_inside, elev, i + 1, j + 1,
                     [elev_all |-> Append(acc.elev_all, Val(h)),
                      elev_in |-> IF pts_inside[i] THEN Append(acc.elev_in, Val(h))
                                  ELSE acc.elev_in])

\* the statistics of the two populations (dem.py:147-162)
StatsOf(pop) ==
    LET elev_all == pop.elev_all
        elev_in == IF pop.elev_in = <<>> THEN elev_all ELSE pop.elev_in
        diffs == IF Len(elev_in) > 3 THEN Diff(Sort(elev_in)) ELSE <<0>>
        var == Variance(diffs)
        sorted == Sort(elev_in)
    IN  [elev_min |-> RInt(sorted[1]),
         elev_max |-> RInt(sorted[Len(sorted)]),
         elev_med |-> Median(elev_in),
         elev_p95 |-> Percentile95(elev_in),
         \* np.clip(std, 0, 100)
         slope_indicative_pct |-> [sq |-> RMin(var, RInt(M(100) * M(100)))],
         rel_lowness_m |-> RAdd(Median(elev_in), RScale(-1, 1, Median(elev_all)))]

\* a variant that tests for an empty list before the nulls are filtered out
\* (np.min of the empty population then raises)
compute_dem_stats_guard_before_filter(pts_inside, net) ==
    LET raw == _get_elevations([i \in 1..Len(pts_inside) |-> i], net).elev
        elev == NonNull(raw)
    IN  IF raw = <<>> THEN ZeroStats
        ELSE IF elev = <<>> THEN [raised |-> "ValueError"]
        ELSE StatsOf(Populations(pts_inside, elev, 1, 1,
                                 [elev_in |-> <<>>, elev_all |-> <<>>]))

compute_dem_stats(pts_inside, net) ==
    LET latlons == [i \in 1..Len(pts_inside) |-> i]
        elev == NonNull(_get_elevations(latlons, net).elev)
    IN  IF elev = <<>> THEN ZeroStats
        ELSE StatsOf(Populations(pts_inside, elev, 1, 1,
                                 [elev_in |-> <<>>, elev_all |-> <<>>]))

---------------------------------------------------------------------------
(* One elevation lookup: _get_elevations on one, two, or a little under    *)
(* and over a batch of points, each batch answered in one of several ways. *)

\* the elevation a provider knows for a point
Ground(p) == M(100) + (p % 3) * 10

Full(batch) == [i \in 1..Len(batch) |-> Some(Ground(batch[i]))]
RECURSIVE AnswersFor(_)
AnswersFor(batches) ==
    LET \* what can come back for one batch: every elevation, one too few, one too
        \* many, nulls, no results, an error status, a failure, a cache hit
        AnswerSamples(batch) ==
            {Json("OK", Full(batch)),
             Json("OK", SubSeq(Full(batch), 1, Len(batch) - 1)),
             Json("OK", Append(Full(batch), Some(Ground(0)))),
             Json("OK", ([i \in 1..Len(batch) |-> None])),
             Json("OK", <<>>),
             Json("INVALID_REQUEST", <<>>),
             HttpError, RequestException,
             Cached(Full(batch)),
             Cached(Append(Full(batch), None))}
    IN
        IF Len(batches) = 0 THEN {<<>>}
        ELSE {<<a>> \o rest : a \in AnswerSamples(Head(batches)),
                              rest \in AnswersFor(Tail(batches))}

InitElev ==
    LET \* the numbers of sample points: around the batch sizes 90 and 100
        PointCounts == {1, 2, 90, 91, 101}
    IN
        /\ pc = "start"
        /\ \E n \in PointCounts :
              LET latlons == [i \in 1..n |-> i]
              IN  \E o \in AnswersFor(_chunk(latlons, 90)),
                     e \in AnswersFor(_chunk(latlons, 100)) :
                      args = [latlons |-> latlons, net |-> [opentopo |-> o, openelev |-> e]]
        /\ res = None

GetElevations ==
    /\ pc = "start"
    /\ res' = _get_elevations(args.latlons, args.net)
    /\ pc' = "done"
    /\ UNCHANGED args

NextElev == GetElevations

SpecElev == InitElev /\ [][NextElev]_vars

---------------------------------------------------------------------------
(* One call of compute_dem_stats on a few sample points.                   *)

\* the most sample points of one parcel
MaxPts == 4

\* OpenTopoData answers with any pattern of elevations and nulls, or fails
\* and Open-Elevation is asked
NetSamples(n) ==
    LET ElevSamples == {M(100), M(101), M(400)}
    IN
        {[opentopo |-> <<Json("OK", r)>>, openelev |-> <<HttpError>>] :
            r \in [1..n -> {None} \cup {Some(h) : h \in ElevSamples}]}
        \cup {[opentopo |-> <<o>>, openelev |-> <<e>>] :
                o \in {HttpError, RequestException, Json("INVALID_REQUEST", <<>>)},
                e \in {HttpError, RequestException, Json("", <<>>),
                       Json("", [i \in 1..n |-> None]),
                       Json("", [i \in 1..n |-> Some(Ground(i))]),
                       Cached([i \in 1..n |-> None])}}

InitDem ==
    /\ pc = "start"
    /\ \E n \in 1..MaxPts :
          \E pts_inside \in [1..n -> BOOLEAN], net \in NetSamples(n) :
              args = [pts_inside |-> pts_inside, net |-> net]
    /\ res = None

ComputeDemStats ==
    /\ pc = "start"
    /\ LET stats == compute_dem_stats(args.pts_inside, args.net)
           latlons == [i \in 1..Len(args.pts_inside) |-> i]
       IN  /\ res' = [stats |-> stats,
                      writes |-> _get_elevations(latlons, args.net).writes]
           /\ pc' = IF "raised" \in DOMAIN stats THEN "raised" ELSE "done"
    /\ UNCHANGED args

NextDem == ComputeDemStats

SpecDem == InitDem /\ [][NextDem]_vars

---------------------------------------------------------------------------
(* compute_dem_stats on a grid of more than four sample points, where the  *)
(* inside population can exceed three elevations while some are null.      *)

\* the number of sample points of the grid
WidePts == 5

InitDemWide ==
    LET WideElevSamples == {M(100), M(101)}
    IN
        /\ pc = "start"
        /\ \E pts_inside \in [1..WidePts -> BOOLEAN],
              r \in [1..WidePts -> {None} \cup {Some(h) : h \in WideElevSamples}] :
                  args = [pts_inside |-> pts_inside,
                          net |-> [opentopo |-> <<Json("OK", r)>>,
                                   openelev |-> <<HttpError>>]]
        /\ res = None

SpecDemWide == InitDemWide /\ [][NextDem]_vars

---------------------------------------------------------------------------
(* dem.py: _expand_grid.  The bounding box is given by its width w and     *)
(* height h in whole metres; the result is the number of grid values on    *)
(* each axis, the lengths of xs and ys.                                    *)

step_m == 60

max_pts == 500

\* max(5, int(side / step_m))
AxisPoints(side) == IF side \div step_m > 5 THEN side \div step_m ELSE 5

\* int(n / k) for k = math.sqrt((nx * ny) / max_pts): the largest integer
\* whose square is at most n * n * max_pts / (nx * ny)
Shrunk(n, nx, ny) ==
    CHOOSE c \in 0..n : /\ c * c * nx * ny <= n * n * max_pts
                        /\ (c + 1) * (c + 1) * nx * ny > n * n * max_pts

_expand_grid(w, h) ==
    LET nx == AxisPoints(w)
        ny == AxisPoints(h)
    IN  IF nx * ny > max_pts
        THEN [nx |-> IF Shrunk(nx, nx, ny) > 5 THEN Shrunk(nx, nx, ny) ELSE 5,
              ny |-> IF Shrunk(ny, nx, ny) > 5 THEN Shrunk(ny, nx, ny) ELSE 5]
        ELSE [nx |-> nx, ny |-> ny]

Sides ==
    LET \* the sides of the boxes, in grid steps.  The box bounds the parcel with a
        \* buffer of 200 m, so no side is shorter than 400 m: the smallest, sides
        \* around the square root of max_pts, and elongated ones
        SideSteps == {6, 7, 20, 22, 23, 25, 100, 101, 123, 200}
    IN
        {step_m * n + r : n \in SideSteps, r \in {40, step_m - 1}}

InitGrid ==
    /\ pc = "start"
    /\ \E w \in Sides, h \in Sides : args = [w |-> w, h |-> h]
    /\ res = None

ExpandGrid ==
    /\ pc = "start"
    /\ res' = _expand_grid(args.w, args.h)
    /\ pc' = "done"
    /\ UNCHANGED args

NextGrid == ExpandGrid

SpecGrid == InitGrid /\ [][NextGrid]_vars

---------------------------------------------------------------------------
(* The classifier on its own: _collect_geoms with one filter on a response *)
(* of a few elements, the areas with every kind of ring.                   *)

\* the most elements in a response given to the classifier alone
MaxCollect == 2

InitCollect ==
    LET CollectSamples ==
            {El("way", kv[1], kv[2], TRUE, ring, M(20)) :
                kv \in {<<"natural", "water">>, <<"landuse", "reservoir">>,
                        <<"landuse", "landfill">>, <<"landuse", "industrial">>,
                        <<"landuse", "cemetery">>},
                ring \in {"ok", "selfx", "few", "single"}}
            \cup {El("way", "highway", "residential", TRUE, ring, M(5)) :
                    ring \in {"ok", "single"}}
            \cup {El("way", "waterway", "stream", TRUE, "ok", M(100)),
                  El("way", "natural", "water", FALSE, "ok", M(20)),
                  El("node", "highway", "bus_stop", FALSE, "ok", M(400))}
    IN
        /\ pc = "start"
        /\ \E E \in SubsetsUpTo(CollectSamples, MaxCollect), filter_fn \in Filters :
              args = [overpass_data |-> [elements |-> E], filter_fn |-> filter_fn]
        /\ res = None

CollectGeoms ==
    /\ pc = "start"
    /\ IF CollectRaises(args.overpass_data, args.filter_fn)
       THEN res' = [raised |-> "ValueError"] /\ pc' = "raised"
       ELSE res' = [geoms |-> _collect_geoms(args.overpass_data, args.filter_fn)]
                /\ pc' = "done"
    /\ UNCHANGED args

NextCollect == CollectGeoms

SpecCollect == InitCollect /\ [][NextCollect]_vars

---------------------------------------------------------------------------
(* storage/cache.py, one caller at a time, caching enabled.  The entry of  *)
(* the key is None (no file) or a file [data, mtime, intact]: the value    *)
(* json.dump wrote, the time of the write, and whether the text still      *)
(* parses.  Times and ttl are whole seconds.                               *)

\* a variant that expires an entry at an age of exactly ttl
ExpiredInclusive(age, ttl) == age >= ttl

\* time.time() - st.st_mtime > ttl
Expired(age, ttl) == age > ttl

\* get_cache_json at time now: the value returned and the entry left behind
get_cache_json(entry, ttl, now) ==
    IF ttl = Some(0) THEN [returned |-> None, entry |-> entry]
    \* os.stat: FileNotFoundError
    ELSE IF entry = None THEN [returned |-> None, entry |-> None]
    ELSE IF ttl # None /\ Val(ttl) > 0 /\ Expired(now - entry.mtime, Val(ttl))
    THEN [returned |-> None, entry |-> None]
    ELSE IF entry.intact THEN [returned |-> Some(entry.data), entry |-> entry]
    \* json.JSONDecodeError: os.remove(path)
    ELSE [returned |-> None, entry |-> None]

\* set_cache_json at time now: the temporary file replaces the entry
set_cache_json(entry, data, now) == [data |-> data, mtime |-> now, intact |-> TRUE]

\* the last second of the clock
MaxClock == 3

\* args: the latest call, the clock, the entry as the call found it and the
\* value of the latest set; res: the entry and the value returned
InitCache ==
    /\ pc = "ready"
    /\ args = [call |-> [op |-> "none"], now |-> 0, before |-> None, stored |-> None]
    /\ res = [entry |-> None, returned |-> None]

SetCache ==
    LET CacheValues == {"v1", "v2"}
    IN
        /\ pc = "ready"
        /\ \E data \in CacheValues :
              /\ args' = [args EXCEPT !.call = [op |-> "set", data |-> data],
                                      !.before = res.entry, !.stored = Some(data)]
              /\ res' = [entry |-> set_cache_json(res.entry, data, args.now),
                         returned |-> None]
        /\ UNCHANGED pc

GetCache ==
    LET TtlSamples == {None, Some(0), Some(1), Some(2)}
    IN
        /\ pc = "ready"
        /\ \E ttl \in TtlSamples :
              LET r == get_cache_json(res.entry, ttl, args.now)
              IN  /\ args' = [args EXCEPT !.call = [op |-> "get", ttl |-> ttl],
                                          !.before = res.entry]
                  /\ res' = [entry |-> r.entry, returned |-> r.returned]
        /\ UNCHANGED pc

\* a second passes
Tick ==
    /\ pc = "ready"
    /\ args.now < MaxClock
    /\ args' = [args EXCEPT !.now = args.now + 1, !.call = [op |-> "none"]]
    /\ UNCHANGED <<pc, res>>

\* the file is cut short from outside (a crash during a non-atomic write)
Damage ==
    /\ pc = "ready"
    /\ res.entry # None
    /\ res.entry.intact
    /\ args' = [args EXCEPT !.call = [op |-> "none"]]
    /\ res' = [res EXCEPT !.entry.intact = FALSE]
    /\ UNCHANGED pc

NextCache == SetCache \/ GetCache \/ Tick \/ Damage

SpecCacheSeq == InitCache /\ [][NextCache]_vars

---------------------------------------------------------------------------
(* storage/cache.py under concurrent callers: two threads of one process   *)
(* in set_cache_json and one in get_cache_json, all on the same key, one   *)
(* system call per step.  pc is the position of every thread.  args holds  *)
(* the data of each writer and the name of its temporary file, which is    *)
(* built from the process id and the second of the call: two writers of    *)
(* the same second share it.  res holds the directory (name -> inode, 0    *)
(* for no file), the inodes (each the chunks written so far), the inode    *)
(* every thread has open, the text the reader loaded and its return value. *)
(* The text of a value is written in two chunks.                           *)

Writers == {"w1", "w2"}

\* the i-th chunk of the text of data
Chunk(data, i) == <<data, i>>

Text(data) == <<Chunk(data, 1), Chunk(data, 2)>>

\* f.write at the offset of the writer's own file object
WriteAt(content, i, chunk) ==
    LET \* the bytes of a hole left by a write beyond the end of a truncated file
        Nul == <<"nul", 0>>
    IN
        IF i <= Len(content) THEN [content EXCEPT ![i] = chunk]
        ELSE [j \in 1..i |-> IF j <= Len(content) THEN content[j]
                              ELSE IF j = i THEN chunk ELSE Nul]

\* the text is that of one value, whole
Complete(content) == \E data \in {"v0", "v1", "v2"} : content = Text(data)

\* json.load: the value, or "error" for json.JSONDecodeError.  A text mixed
\* from two values of the same shape can parse as a value that is neither.
Loads(content) ==
    LET \* chunks of the texts of two values, one after the other
        Mixed(text) ==
            /\ Len(text) = 2
            /\ text[1][2] = 1 /\ text[2][2] = 2
            /\ text[1][1] # text[2][1]
    IN
        IF Complete(content) THEN {content[1][1]}
        ELSE IF Mixed(content) THEN {"error", "hybrid"}
        ELSE {"error"}

\* open(name, "w"): the file is created, or truncated if it exists
OpenForWrite(t, name) ==
    IF res.dir[name] # 0
    THEN [res EXCEPT !.inodes[res.dir[name]] = <<>>, !.fd[t] = res.dir[name]]
    ELSE [res EXCEPT !.inodes = Append(res.inodes, <<>>),
                     !.dir[name] = Len(res.inodes) + 1,
                     !.fd[t] = Len(res.inodes) + 1]

WriteChunk(t, i) ==
    [res EXCEPT !.inodes[res.fd[t]] = WriteAt(res.inodes[res.fd[t]], i, Chunk(args.data[t], i))]

InitConc ==
    LET Threads == Writers \cup {"r"}
    IN
        /\ pc = [t \in Threads |-> IF t = "r" THEN "stat" ELSE "open_tmp"]
        /\ \E tmp2 \in {"tmp1", "tmp2"} :
              args = [data |-> [w1 |-> "v1", w2 |-> "v2"],
                      tmp_path |-> [w1 |-> "tmp1", w2 |-> tmp2]]
        /\ \E old \in {0, 1} :
              res = [dir |-> [path |-> old, tmp1 |-> 0, tmp2 |-> 0],
                     inodes |-> IF old = 1 THEN <<Text("v0")>> ELSE <<>>,
                     fd |-> [t \in Threads |-> 0],
                     loaded |-> <<"unread">>,
                     returned |-> <<"unread">>]

\* set_cache_json, line 84: open(tmp_path, "w")
OpenTmp(t) ==
    /\ pc[t] = "open_tmp"
    /\ res' = OpenForWrite(t, args.tmp_path[t])
    /\ pc' = [pc EXCEPT ![t] = "dump1"]
    /\ UNCHANGED args

\* lines 85-87: json.dump, one chunk of the text per step, then flush,
\* fsync and close
Dump(t) ==
    /\ pc[t] \in {"dump1", "dump2"}
    /\ res' = WriteChunk(t, IF pc[t] = "dump1" THEN 1 ELSE 2)
    /\ pc' = [pc EXCEPT ![t] = IF pc[t] = "dump1" THEN "dump2" ELSE "replace"]
    /\ UNCHANGED args

\* line 88: os.replace(tmp_path, path); FileNotFoundError when the name is
\* gone leads to the handler of line 89
Replace(t) ==
    /\ pc[t] = "replace"
    /\ IF res.dir[args.tmp_path[t]] # 0
       THEN /\ res' = [res EXCEPT !.dir["path"] = res.dir[args.tmp_path[t]],
                                  !.dir[args.tmp_path[t]] = 0]
            /\ pc' = [pc EXCEPT ![t] = "done"]
       ELSE /\ pc' = [pc EXCEPT ![t] = "open_path"]
            /\ UNCHANGED res
    /\ UNCHANGED args

\* line 92: open(path, "w")
OpenPath(t) ==
    /\ pc[t] = "open_path"
    /\ res' = OpenForWrite(t, "path")
    /\ pc' = [pc EXCEPT ![t] = "direct1"]
    /\ UNCHANGED args

\* line 93: json.dump into the entry itself, one chunk per step, then close
Direct(t) ==
    /\ pc[t] \in {"direct1", "direct2"}
    /\ res' = WriteChunk(t, IF pc[t] = "direct1" THEN 1 ELSE 2)
    /\ pc' = [pc EXCEPT ![t] = IF pc[t] = "direct1" THEN "direct2" ELSE "cleanup"]
    /\ UNCHANGED args

\* lines 97-99: if os.path.exists(tmp_path): os.remove(tmp_path)
Cleanup(t) ==
    /\ pc[t] = "cleanup"
    /\ res' = [res EXCEPT !.dir[args.tmp_path[t]] = 0]
    /\ pc' = [pc EXCEPT ![t] = "done"]
    /\ UNCHANGED args

\* get_cache_json with ttl = None, line 45: os.stat(path)
Stat ==
    /\ pc["r"] = "stat"
    /\ IF res.dir["path"] = 0
       THEN /\ res' = [res EXCEPT !.returned = <<"None">>, !.loaded = <<"nofile">>]
            /\ pc' = [pc EXCEPT !["r"] = "done"]
       ELSE /\ pc' = [pc EXCEPT !["r"] = "open"]
            /\ UNCHANGED res
    /\ UNCHANGED args

\* line 54: open(path, "r")
OpenRead ==
    /\ pc["r"] = "open"
    /\ IF res.dir["path"] = 0
       THEN /\ res' = [res EXCEPT !.returned = <<"None">>, !.loaded = <<"nofile">>]
            /\ pc' = [pc EXCEPT !["r"] = "done"]
       ELSE /\ res' = [res EXCEPT !.fd["r"] = res.dir["path"]]
            /\ pc' = [pc EXCEPT !["r"] = "load"]
    /\ UNCHANGED args

\* line 56: json.load(f)
Load ==
    /\ pc["r"] = "load"
    /\ \E v \in Loads(res.inodes[res.fd["r"]]) :
          IF v = "error"
          THEN /\ res' = [res EXCEPT !.loaded = res.inodes[res.fd["r"]]]
               /\ pc' = [pc EXCEPT !["r"] = "remove"]
          ELSE /\ res' = [res EXCEPT !.loaded = res.inodes[res.fd["r"]],
                                     !.returned = <<v>>]
               /\ pc' = [pc EXCEPT !["r"] = "done"]
    /\ UNCHANGED args

\* lines 60-63: os.remove(path), return None
Remove ==
    /\ pc["r"] = "remove"
    /\ res' = [res EXCEPT !.dir["path"] = 0, !.returned = <<"None">>]
    /\ pc' = [pc EXCEPT !["r"] = "done"]
    /\ UNCHANGED args

\* the next read of the key
ReadAgain ==
    /\ pc["r"] = "done"
    /\ pc' = [pc EXCEPT !["r"] = "stat"]
    /\ UNCHANGED <<args, res>>

NextConc ==
    \/ \E t \in Writers :
          \/ OpenTmp(t) \/ Dump(t) \/ Replace(t)
          \/ OpenPath(t) \/ Direct(t) \/ Cleanup(t)
    \/ Stat \/ OpenRead \/ Load \/ Remove \/ ReadAgain

SpecCacheConc == InitConc /\ [][NextConc]_vars

---------------------------------------------------------------------------
(* services/osm.py: fetch_overpass for one bounding box, caching enabled.  *)
(* An endpoint answers with a response [status, body] or the request       *)
(* fails; a body is "bad" (not JSON) or a JSON value, of which "{}" is the *)
(* empty object.  The cache entry and the clock are those of cache.py.     *)

Resp(status, body) == [kind |-> "response", status |-> status, body |-> body]

\* a variant that takes the JSON body of a response of any status
SucceedsOnAnyStatus(answer) == answer.kind = "response" /\ answer.body # "bad"

\* r.status_code == 200 and r.json() does not raise ValueError
Succeeds(answer) ==
    answer.kind = "response" /\ answer.status = 200 /\ answer.body # "bad"

OverpassTtl == 24 * 3600

UpTo(n) == [j \in 1..n |-> j]

RECURSIVE Attempts(_, _, _, _)
\* the loop over _endpoints() from the i-th endpoint on
Attempts(answers, i, entry, now) ==
    IF i > Len(answers)
    THEN [raised |-> TRUE, returned |-> None, contacted |-> UpTo(Len(answers)),
          entry |-> entry]
    ELSE IF Succeeds(answers[i])
    THEN [raised |-> FALSE, returned |-> Some(answers[i].body), contacted |-> UpTo(i),
          entry |-> set_cache_json(entry, answers[i].body, now)]
    ELSE Attempts(answers, i + 1, entry, now)

\* answers[i] is what the i-th configured endpoint would answer
fetch_overpass(entry, answers, now) ==
    LET \* bool(value) of a JSON value: an empty object is false
        JsonTruthy(value) == value # "{}"
    IN
        LET cached == get_cache_json(entry, Some(OverpassTtl), now)
        IN  IF cached.returned # None /\ JsonTruthy(Val(cached.returned))
            THEN [raised |-> FALSE, returned |-> cached.returned, contacted |-> <<>>,
                  entry |-> cached.entry]
            ELSE Attempts(answers, 1, cached.entry, now)

\* the most configured endpoints
MaxEndpoints == 3

\* the clock runs in steps of a day up to this many
MaxDays == 2

EndpointAnswers ==
    {Resp(200, body) : body \in {"osmA", "osmB", "{}", "bad"}}
    \cup {Resp(504, "osmA"), RequestException}

\* Two calls for the same bounding box: the first finds no cache entry and
\* one endpoint, the second any list of endpoints, up to MaxDays later.
\* args: the latest call (the answers the endpoints would give, the time,
\* the cache entry it found); res: the cache entry and the outcome
InitOverpass ==
    /\ pc = "first"
    /\ args = [op |-> "none", answers |-> <<>>, now |-> 0, before |-> None]
    /\ res = [entry |-> None, raised |-> FALSE, returned |-> None, contacted |-> <<>>]

FirstFetch ==
    /\ pc = "first"
    /\ \E answer \in EndpointAnswers :
          /\ args' = [args EXCEPT !.op = "fetch", !.answers = <<answer>>,
                                  !.before = res.entry]
          /\ res' = fetch_overpass(res.entry, <<answer>>, args.now)
    /\ pc' = "second"

\* a day passes
Later ==
    /\ pc = "second"
    /\ args.now < MaxDays * 24 * 3600
    /\ args' = [args EXCEPT !.op = "none", !.now = args.now + 24 * 3600]
    /\ UNCHANGED <<pc, res>>

SecondFetch ==
    /\ pc = "second"
    /\ \E n \in 0..MaxEndpoints :
          \E answers \in [1..n -> EndpointAnswers] :
              /\ args' = [args EXCEPT !.op = "fetch", !.answers = answers,
                                      !.before = res.entry]
              /\ res' = fetch_overpass(res.entry, answers, args.now)
    /\ pc' = "done"

NextOverpass == FirstFetch \/ Later \/ SecondFetch

SpecOverpass == InitOverpass /\ [][NextOverpass]_vars

---------------------------------------------------------------------------
(* Claims about flood_risk_pct (checked under SpecFlood).                  *)

FloodDone == pc = "done"

\* C1: flood_risk_pct returns an integer in [0,100] for every combination
\* of inputs, a None for any of the three arguments included.
C1_FloodPctInRange ==
    FloodDone => res.flood_pct \in 0..100

\* the call returned for a None water distance and a None slope, with only
\* the relative-lowness term contributing
C1_Witness ==
    /\ FloodDone
    /\ IsNone(args.d_water_m) /\ IsNone(args.slope_pct)
    /\ args.rel_low_m = Some(-Dec(2, 0))
    /\ res.flood_pct = 35

\* d1 is at most d2, a None distance counting as farther than any distance
DistLe(d1, d2) == IsNone(d2) \/ (~IsNone(d1) /\ Val(d1) <= Val(d2))

\* C2: with relative-lowness and slope fixed the percentage never grows with
\* the water distance (None the farthest); with water distance and slope
\* fixed a lower relative-lowness never gives a smaller percentage.
C2_FloodMonotone ==
    FloodDone =>
        /\ \A d2 \in WaterDistSamples :
              DistLe(args.d_water_m, d2) =>
                  res.flood_pct >= flood_risk_pct(d2, args.rel_low_m, args.slope_pct)
        /\ \A v2 \in RelLowSamples :
              (~IsNone(v2) /\ ~IsNone(args.rel_low_m) /\ Val(v2) <= Val(args.rel_low_m)) =>
                  flood_risk_pct(args.d_water_m, v2, args.slope_pct) >= res.flood_pct

\* the call returned for a distance just inside the 30 m tier, whose result
\* is strictly above that of the farther samples
C2_Witness ==
    /\ FloodDone
    /\ args.d_water_m = Some(M(30) - 1)
    /\ args.rel_low_m = Some(-Dec(1, 0))
    /\ res.flood_pct > flood_risk_pct(Some(M(30)), args.rel_low_m, args.slope_pct)

WaterTerm(d) ==
    CASE IsNone(d) -> 0
      [] ~IsNone(d) /\ Val(d) < M(10) -> 60
      [] ~IsNone(d) /\ M(10) <= Val(d) /\ Val(d) < M(30) -> 45
      [] ~IsNone(d) /\ M(30) <= Val(d) /\ Val(d) < M(100) -> 25
      [] ~IsNone(d) /\ M(100) <= Val(d) /\ Val(d) < M(300) -> 10
      [] OTHER -> 0
LownessTerm(v) ==
    CASE IsNone(v) -> 0
      [] ~IsNone(v) /\ Val(v) <= -Dec(2, 0) -> 35
      [] ~IsNone(v) /\ -Dec(2, 0) < Val(v) /\ Val(v) <= -Dec(1, 0) -> 20
      [] ~IsNone(v) /\ -Dec(1, 0) < Val(v) /\ Val(v) <= -Dec(0, 5) -> 10
      [] OTHER -> 0
FlatTerm(s) == IF ~IsNone(s) /\ Val(s) <= Dec(0, 5) THEN 5 ELSE 0
Min2(a, b) == IF a <= b THEN a ELSE b

\* C3: flood_risk_pct = min(100, W + L + F) with W = 60/45/25/10/0 for a
\* water distance < 10, < 30, < 100, < 300, otherwise (0 for None),
\* L = 35/20/10/0 for a relative-lowness <= -2.0, <= -1.0, <= -0.5, otherwise,
\* F = 5 for a slope-indicative value <= 0.5 and 0 otherwise.
C3_FloodTable ==
    FloodDone =>
        res.flood_pct = Min2(100, WaterTerm(args.d_water_m)
                                   + LownessTerm(args.rel_low_m)
                                   + FlatTerm(args.slope_pct))

\* the call returned with all three terms at a tier bound: water at exactly
\* 10 m (second tier), lowness at exactly -1.0 and slope at exactly 0.5
C3_Witness ==
    /\ FloodDone
    /\ args = [d_water_m |-> Some(M(10)), rel_low_m |-> Some(-Dec(1, 0)),
               slope_pct |-> Some(Dec(0, 5))]
    /\ res.flood_pct = 70

\* the scenario of C4: exactly 100 m from water, relative-lowness -1.5 m,
\* slope-indicative 0.4
FloodScenario ==
    /\ FloodDone
    /\ args = [d_water_m |-> Some(M(100)), rel_low_m |-> Some(-Dec(1, 5)),
               slope_pct |-> Some(Dec(0, 4))]

\* C4 as stated: in the scenario flood_risk_pct returns 50 (25 + 20 + 5) and
\* the risk-level label is "medium".
C4_ScenarioAsStated ==
    FloodScenario => (res.flood_pct = 50 /\ res.label = "medium")

\* C4 as amended: a distance of exactly 100 m is not < 100 m and falls in the
\* < 300 m tier, so in the scenario flood_risk_pct returns 35 (10 + 20 + 5);
\* the risk-level label is "medium".
C4_ScenarioAmended ==
    FloodScenario => (res.flood_pct = 35 /\ res.label = "medium")

C4_Witness == FloodScenario

---------------------------------------------------------------------------
(* Claims about norm_inv_dist (checked under SpecNorm).                    *)

\* C5: for good < bad and a distance d that is not None, norm_inv_dist is
\* exactly 100 for d <= good, exactly 0 for d >= bad and
\* 100 * (bad - d) / (bad - good) in between; it never grows with d and lies
\* in [0,100].
C5_NormPiecewise ==
    (pc = "done" /\ ~IsNone(args.d)) =>
        LET d == Val(args.d) IN
        /\ d <= args.good => res = <<100, 1>>
        /\ d >= args.bad => res = <<0, 1>>
        /\ (args.good < d /\ d < args.bad) =>
              RScale(args.bad - args.good, 100, res) = RInt(args.bad - d)
        /\ res[2] > 0 /\ 0 <= res[1] /\ res[1] <= 100 * res[2]
        /\ \A d2 \in NormDistSamples :
              (~IsNone(d2) /\ d <= Val(d2)) =>
                  RLe(norm_inv_dist(d2, args.good, args.bad), res)

\* the call returned for the midpoint of the road pair, 2650 m between 300 m
\* and 5000 m, with the score 50
C5_Witness ==
    /\ pc = "done"
    /\ args = [d |-> Some(M(2650)), good |-> M(300), bad |-> M(5000)]
    /\ res = <<50, 1>>

---------------------------------------------------------------------------
(* Claims about compute_all (checked under Spec).                          *)

Done == pc = "done"

\* d ?? dflt: the default only for None
Coalesce(d, dflt) == IF IsNone(d) THEN Some(dflt) ELSE d

\* C6: the access, power and infrastructure sub-scores take their "assume
\* far" default (5000 m road, 5000 m power, 4000 m stop, 15000 m settlement)
\* only for a None distance; every other distance, 0 included, goes to norm
\* unchanged, so a road distance of 0 gives access = 100.
C6_DefaultOnlyForNone ==
    Done =>
        /\ res.score.access
              = norm_inv_dist(Coalesce(res.d_road_m, M(5000)), M(300), M(5000))
        /\ res.score.power
              = norm_inv_dist(Coalesce(res.d_power_m, M(5000)), M(300), M(5000))
        /\ res.score.infra
              = RAdd(RScale(6, 10, norm_inv_dist(Coalesce(res.d_stop_m, M(4000)),
                                                 M(500), M(4000))),
                     RScale(4, 10, norm_inv_dist(Coalesce(res.d_place_m, M(15000)),
                                                 M(2000), M(15000))))

\* C7: the composite score is an integer in [0,100] for every combination of
\* distances (None or not), slope, flood percentage and road adjacency.
C7_TotalInRange ==
    Done => res.score.total \in 0..100

\* a request with a road 5 m away that the parcel fronts, a stop and a
\* settlement nearby and no power feature (a None distance): total 90
C7_Witness ==
    /\ Done
    /\ res.touches_road
    /\ res.d_road_m = Some(M(5)) /\ IsNone(res.d_power_m)
    /\ ~IsNone(res.d_stop_m) /\ ~IsNone(res.d_place_m)
    /\ res.score.total = 90

\* 100 times the weighted sum of the reported sub-scores, as a rational
WeightedSum100 ==
    RAdd(RScale(25, 1, res.score.access),
    RAdd(RScale(20, 1, res.score.flood),
    RAdd(RScale(20, 1, res.score.slope),
    RAdd(RScale(15, 1, res.score.infra),
    RAdd(RScale(10, 1, res.score.power),
         RInt(10 * (IF res.touches_road THEN 100 ELSE 40)))))))

\* t is x/100 rounded to the nearest integer, a tie going to the even one
IsRoundOf(t, x) ==
    LET diff == Abs(100 * t * x[2] - x[1])
    IN  /\ 2 * diff <= 100 * x[2]
        /\ 2 * diff = 100 * x[2] => t % 2 = 0

\* C8: score.total = round(0.25 access + 0.20 flood + 0.20 slope + 0.15 infra
\* + 0.10 power + 0.10 A), A = 100 when touches_road and 40 otherwise, over
\* the sub-scores reported in the same result; the weights sum to 1.0.
C8_TotalFormula ==
    Done =>
        /\ IsRoundOf(res.score.total, WeightedSum100)
        /\ 25 + 20 + 20 + 15 + 10 + 10 = 100

\* a request whose power sub-score is positive and whose weighted sum is not
\* an integer, so that both the power term and the rounding matter
C8_Witness ==
    /\ Done
    /\ res.score.power = <<50, 1>>
    /\ WeightedSum100[1] % (100 * WeightedSum100[2]) # 0
    /\ ~res.touches_road

InPercentRange(r) == r[2] > 0 /\ 0 <= r[1] /\ r[1] <= 100 * r[2]

\* max(0, 100 - min(100, |s - 3| * 15)) for a slope s in tenths
SlopeScoreOf(s) ==
    LET x == Abs(s - 30) * 15
    IN  IF x >= 1000 THEN <<0, 1>> ELSE Rat(1000 - x, 10)

\* C9: each of the five sub-scores lies in [0,100]; the flood sub-score is
\* 100 minus the reported risk.flood_pct; the slope sub-score is
\* max(0, 100 - min(100, |slope_indicative - 3| * 15)).
C9_SubScores ==
    Done =>
        /\ \A k \in {"access", "flood", "slope", "infra", "power"} :
              InPercentRange(res.score[k])
        /\ res.score.flood = <<100 - res.risk.flood_pct, 1>>
        /\ res.score.slope = SlopeScoreOf(res.dem.slope_indicative_pct)

\* a request with water 5 m away (+60), relative-lowness -1.5 (+20) and
\* slope 0.4 (+5): flood percentage 85, flood sub-score 15, and a slope
\* sub-score strictly between the clamps (100 - 2.6 * 15 = 61)
C9_Witness ==
    /\ Done
    /\ res.risk.flood_pct = 85
    /\ res.score.flood = <<15, 1>>
    /\ res.dem.slope_indicative_pct = Dec(0, 4)
    /\ res.score.slope = <<61, 1>>

NoRoadFeatures == \A el \in args.osm_data.elements : ~IsRoadAll(el)

\* C10: when the feature collection holds no road feature, compute_all
\* reports d_road_m = None, access = 0, touches_road = false, facade_len_m = 0.
C10_NoRoads ==
    (Done /\ NoRoadFeatures) =>
        /\ res.d_road_m = None
        /\ res.score.access = <<0, 1>>
        /\ res.touches_road = FALSE
        /\ res.facade_len_m = 0

\* a request whose response holds features, a footway among them, but no
\* way of a road class
C10_Witness ==
    /\ Done
    /\ NoRoadFeatures
    /\ \E el \in args.osm_data.elements : el.key = "highway" /\ el.val = "footway"
    /\ \E el \in args.osm_data.elements : IsWater(el)
    /\ res.d_road_m = None /\ res.score.access = <<0, 1>>

---------------------------------------------------------------------------
(* The road distance, the road contact and the 10 x 10 house.              *)

\* the distances to the roads of the request, by group, read off the tags
MajorRoadDists ==
    {el.dist : el \in {x \in args.osm_data.elements :
        x.type = "way" /\ x.geometry /\ x.key = "highway" /\ x.val \in ROAD_TAGS_MAJOR}}
AllRoadDists ==
    {el.dist : el \in {x \in args.osm_data.elements :
        x.type = "way" /\ x.geometry /\ x.key = "highway" /\ x.val \in ROAD_TAGS_ALL}}

\* C11: the reported road distance is the distance to the nearest major road
\* whenever a major road was classified, the distance to the nearest road of
\* any class when none was, and null exactly when there is no road at all.
C11_RoadDistance ==
    Done =>
        /\ MajorRoadDists # {} => res.d_road_m = Some(SetMin(MajorRoadDists))
        /\ (MajorRoadDists = {} /\ AllRoadDists # {})
               => res.d_road_m = Some(SetMin(AllRoadDists))
        /\ IsNone(res.d_road_m) <=> (MajorRoadDists = {} /\ AllRoadDists = {})

\* a major road far away and a minor road close by: the major one is reported
C11_Witness ==
    /\ Done
    /\ MajorRoadDists # {}
    /\ SetMin(AllRoadDists) < SetMin(MajorRoadDists)
    /\ res.d_road_m = Some(SetMin(MajorRoadDists))

\* C12: touches_road is true exactly when the frontage length (the parcel
\* boundary inside the union of the 10 m road buffers) exceeds 0.5 m.
C12_TouchesRoad ==
    Done =>
        /\ res.touches_road <=> res.facade_len_m > Dec(0, 5)
        /\ res.facade_len_m = (IF AllRoadDists # {} THEN args.parcel.inter_len ELSE 0)

\* a frontage of exactly 0.5 m is not road contact
C12_Witness ==
    /\ Done
    /\ AllRoadDists # {}
    /\ res.facade_len_m = Dec(0, 5)
    /\ ~res.touches_road

\* C13: can_house_10x10 is true exactly when both side lengths of the
\* minimum rotated rectangle are at least 10 m.
C13_CanHouse ==
    Done =>
        (res.can_house_10x10 <=>
            (args.parcel.mrr_edges[1] >= M(10) /\ args.parcel.mrr_edges[2] >= M(10)))

\* the rectangle 9.5 x 20 cannot hold the house
C13_Witness ==
    /\ Done
    /\ args.parcel.mrr_edges = <<Dec(9, 5), M(20), Dec(9, 5), M(20)>>
    /\ ~res.can_house_10x10

---------------------------------------------------------------------------
(* Claims about build_risks (checked under SpecRisks).                     *)

\* the rule that appends each risk and each checklist item, by position in
\* the rule list: road access, flood, water zone, power line, rail, gas,
\* industrial, landfill, wastewater, cemetery, slope, narrow frontage, weak
\* infrastructure
RiskRule ==
    [no_road_adjacency |-> 1, flood_high |-> 2, flood_medium |-> 2,
     water_zone_lt_100m |-> 3, power_line_lt_50m |-> 4, rail_lt_200m |-> 5,
     gas_pipeline_lt_50m |-> 6, industrial_lt_500m |-> 7, landfill_lt_1km |-> 8,
     wastewater_lt_700m |-> 9, cemetery_lt_300m |-> 10, slope_steep |-> 11,
     slope_very_small |-> 11, narrow_frontage_lt_8m |-> 12,
     weak_infrastructure |-> 13]
CheckRule ==
    [check_legal_access |-> 1, check_flood_maps |-> 2,
     check_water_protection_zone |-> 3, check_power_line_zone |-> 4,
     check_rail_noise |-> 5, check_gas_zone |-> 6, check_industrial_szz |-> 7,
     check_landfill_status |-> 8, check_wastewater_szz |-> 9,
     check_cemetery_szz |-> 10, check_grading_drainage |-> 11,
     check_storm_drain |-> 11, check_gate_placement |-> 12,
     check_travel_time |-> 13]

RisksOfRule(k) == {i \in 1..Len(res.risks) : RiskRule[res.risks[i][1]] = k}
ChecksOfRule(k) == {i \in 1..Len(res.checks) : CheckRule[res.checks[i]] = k}

\* C14: the checklist of build_risks has no duplicates and keeps its items
\* in the order the rules first appended them, and the risk list is in
\* rule-evaluation order.
C14_RuleOrder ==
    Done =>
        /\ \A i, j \in 1..Len(res.checks) : i # j => res.checks[i] # res.checks[j]
        /\ \A i, j \in 1..Len(res.checks) :
              i < j => CheckRule[res.checks[i]] < CheckRule[res.checks[j]]
        /\ \A i, j \in 1..Len(res.risks) :
              i < j => RiskRule[res.risks[i][1]] < RiskRule[res.risks[j][1]]

\* twelve rules fire at once (road access and narrow frontage exclude each
\* other), the first and the last among them
C14_Witness ==
    /\ Done
    /\ Len(res.risks) = 12
    /\ Len(res.checks) = 12
    /\ res.risks[1][1] = "flood_high"
    /\ res.risks[12] = <<"weak_infrastructure">>

\* the condition of every rule, on the metric set
RuleHolds(k) ==
    LET m == args.metric_set
        close(d, limit) == d # None /\ Val(d) < limit
    IN  CASE k = 1 -> ~m.touches_road
          [] k = 2 -> Val(m.risk_flood_pct) >= 35
          [] k = 3 -> close(m.d_water_m, M(100))
          [] k = 4 -> close(m.d_power_m, M(50))
          [] k = 5 -> close(m.d_rail_m, M(200))
          [] k = 6 -> close(m.d_gas_m, M(50))
          [] k = 7 -> close(m.d_industrial_m, M(500))
          [] k = 8 -> close(m.d_landfill_m, M(1000))
          [] k = 9 -> close(m.d_wastewater_m, M(700))
          [] k = 10 -> close(m.d_cemetery_m, M(300))
          [] k = 11 -> \/ m.dem.slope_indicative_pct >= M(8)
                       \/ m.dem.slope_indicative_pct <= Dec(0, 3)
          [] k = 12 -> m.touches_road /\ m.facade_len_m < M(8)
          [] k = 13 -> \/ (m.d_stop_m # None /\ Val(m.d_stop_m) > M(2000))
                       \/ (m.d_place_m # None /\ Val(m.d_place_m) > M(5000))

NoRuleHolds == \A k \in 1..13 : ~RuleHolds(k)

\* C15 as stated: every rule appends at most one risk and at most one
\* checklist item and only when its condition holds, so a metric set on
\* which no rule's condition holds yields an empty risk list and an empty
\* checklist.
C15_OnlyWhenConditionHolds ==
    Done =>
        /\ \A k \in 1..13 :
              /\ Cardinality(RisksOfRule(k)) <= 1
              /\ Cardinality(ChecksOfRule(k)) <= 1
              /\ RisksOfRule(k) # {} => RuleHolds(k)
              /\ ChecksOfRule(k) # {} => RuleHolds(k)
        /\ NoRuleHolds => (res.risks = <<>> /\ res.checks = <<>>)

\* C15 (amended): every rule appends at most one risk and at most one
\* checklist item; a risk, and a checklist item other than the flood-maps
\* item, only when the rule's condition holds.  The flood rule appends its
\* checklist item whatever the flood level, so a metric set on which no
\* rule's condition holds yields an empty risk list and a checklist of that
\* one item.
C15_FloodCheckAlways ==
    Done =>
        /\ \A k \in 1..13 :
              /\ Cardinality(RisksOfRule(k)) <= 1
              /\ Cardinality(ChecksOfRule(k)) <= 1
              /\ RisksOfRule(k) # {} => RuleHolds(k)
              /\ (k # 2 /\ ChecksOfRule(k) # {}) => RuleHolds(k)
        /\ Cardinality(ChecksOfRule(2)) = 1
        /\ NoRuleHolds => (res.risks = <<>> /\ res.checks = <<"check_flood_maps">>)

\* no rule's condition holds, and the checklist is the flood-maps item
C15_Witness ==
    /\ Done
    /\ NoRuleHolds
    /\ res.risks = <<>>
    /\ res.checks = <<"check_flood_maps">>

HasRisk(text) == \E i \in 1..Len(res.risks) : res.risks[i] = <<text>>

\* C16: each proximity risk appears exactly when its distance is non-null
\* and strictly below its limit: water 100 m, power line 50 m, rail 200 m,
\* gas 50 m, industrial 500 m, landfill 1000 m, wastewater 700 m, cemetery
\* 300 m.
C16_ProximityRisks ==
    LET m == args.metric_set
        below(d, metres) == d # None /\ Val(d) < 10 * metres
    IN  Done =>
            /\ HasRisk("water_zone_lt_100m") <=> below(m.d_water_m, 100)
            /\ HasRisk("power_line_lt_50m") <=> below(m.d_power_m, 50)
            /\ HasRisk("rail_lt_200m") <=> below(m.d_rail_m, 200)
            /\ HasRisk("gas_pipeline_lt_50m") <=> below(m.d_gas_m, 50)
            /\ HasRisk("industrial_lt_500m") <=> below(m.d_industrial_m, 500)
            /\ HasRisk("landfill_lt_1km") <=> below(m.d_landfill_m, 1000)
            /\ HasRisk("wastewater_lt_700m") <=> below(m.d_wastewater_m, 700)
            /\ HasRisk("cemetery_lt_300m") <=> below(m.d_cemetery_m, 300)

\* a water body at exactly 100 m raises no risk while a railway at 199.9 m
\* does
C16_Witness ==
    /\ Done
    /\ args.metric_set.d_water_m = Some(M(100))
    /\ ~HasRisk("water_zone_lt_100m")
    /\ args.metric_set.d_rail_m = Some(M(200) - 1)
    /\ HasRisk("rail_lt_200m")

---------------------------------------------------------------------------
(* Claims about the flood level shown to the user (checked under           *)
(* SpecLevels).                                                            *)

\* the level the risk list of build_risks states for the flood percentage
FloodRiskLevel ==
    IF \E i \in 1..Len(res.risks) : res.risks[i][1] = "flood_high" THEN "high"
    ELSE IF \E i \in 1..Len(res.risks) : res.risks[i][1] = "flood_medium" THEN "medium"
    ELSE "low"

\* C17: for every flood percentage in 0..100 the level label, the caption,
\* the explanation, the PDF report and the flood risk string of build_risks
\* (none, medium, high) agree, on the levels < 35 low, < 65 medium, else
\* high.
C17_SameThresholds ==
    Done =>
        LET flood_pct == Val(args.metric_set.risk_flood_pct)
            level == IF flood_pct < 35 THEN "low"
                     ELSE IF flood_pct < 65 THEN "medium" ELSE "high"
        IN  /\ res.label = level
            /\ res.brief = <<flood_pct, level>>
            /\ res.explain = level
            /\ res.report = level
            /\ FloodRiskLevel = level
            /\ \A i \in 1..Len(res.risks) :
                  Len(res.risks[i]) = 2 => res.risks[i][2] = flood_pct

\* at 35 % every place says medium
C17_Witness ==
    /\ Done
    /\ args.metric_set.risk_flood_pct = Some(35)
    /\ res.label = "medium"
    /\ res.explain = "medium"
    /\ res.risks = <<<<"flood_medium", 35>>>>

---------------------------------------------------------------------------
(* Claims about the elevation statistics (checked under SpecDem) and the   *)
(* elevation lookup (checked under SpecElev).                              *)

\* a provider's answer to the one batch is a failure
Fails(provider, answer) ==
    \/ answer.kind \in {"exception", "http_error"}
    \/ (provider = "opentopo" /\ answer.kind = "json"
            /\ answer.status # "OK" /\ answer.results = <<>>)

\* a provider's answer to the one batch holds no elevation
HoldsNoElevation(answer) ==
    \A i \in 1..Len(answer.results) : answer.results[i] = None

BothProvidersFail ==
    /\ Fails("opentopo", args.net.opentopo[1])
    /\ Fails("openelev", args.net.openelev[1])

\* the lookup yields only nulls: the provider that answers knows no
\* elevation, or both providers fail
LookupOnlyNulls ==
    \/ (~Fails("opentopo", args.net.opentopo[1])
            /\ HoldsNoElevation(args.net.opentopo[1]))
    \/ (Fails("opentopo", args.net.opentopo[1])
            /\ ~Fails("openelev", args.net.openelev[1])
            /\ HoldsNoElevation(args.net.openelev[1]))
    \/ BothProvidersFail

\* C18: compute_dem_stats never raises for missing elevation data: whenever
\* the lookup yields only nulls, both providers failing included, it returns
\* the statistics record with all six statistics equal to 0.
C18_ZeroStatsWithoutElevations ==
    (pc # "start" /\ LookupOnlyNulls) =>
        /\ pc = "done"
        /\ res.stats = [elev_min |-> <<0, 1>>, elev_max |-> <<0, 1>>,
                        elev_med |-> <<0, 1>>, elev_p95 |-> <<0, 1>>,
                        slope_indicative_pct |-> [sq |-> <<0, 1>>],
                        rel_lowness_m |-> <<0, 1>>]

\* both providers fail for a parcel of several points, and the zeros come back
C18_Witness ==
    /\ pc = "done"
    /\ Len(args.pts_inside) > 1
    /\ BothProvidersFail
    /\ res.stats.elev_min = <<0, 1>>
    /\ res.stats.slope_indicative_pct = [sq |-> <<0, 1>>]

\* C19: the elevation lookup returns a list of the same length and in the
\* same order as the list of points it was given, for every provider
\* response: every entry is null or the elevation of the point at its
\* position.
C19_SameLengthAndOrder ==
    Done =>
        /\ Len(res.elev) = Len(args.latlons)
        /\ \A i \in 1..Len(res.elev) :
              \/ res.elev[i] = None
              \/ (i <= Len(args.latlons) /\ res.elev[i] = Some(Ground(args.latlons[i])))

---------------------------------------------------------------------------
(* Claims about the classifier (checked under SpecCollect).                *)

\* a way of a polygon-like category that the filter selects and whose ring
\* cannot form a valid area
InvalidAreas ==
    {el \in args.overpass_data.elements :
        /\ el.type = "way" /\ el.geometry
        /\ \/ (el.key = "natural" /\ el.val = "water")
           \/ (el.key = "landuse"
                 /\ el.val \in {"reservoir", "landfill", "industrial", "cemetery"})
        /\ el.ring \in {"few", "single", "selfx"}
        /\ Apply(args.filter_fn, el)}

\* C20: for a way of a polygon-like category whose ring cannot form a valid
\* area (too few points, or self-intersecting) _collect_geoms yields
\* exactly one line geometry for that feature: the feature is not dropped
\* and no exception is raised.
C20_InvalidRingYieldsLine ==
    (pc # "start" /\ InvalidAreas # {}) =>
        /\ pc = "done"
        /\ \A el \in InvalidAreas :
              {g \in res.geoms : g.of = el} = {[shape |-> "LineString", of |-> el]}

---------------------------------------------------------------------------
(* Claim about the failures of compute_all.                                *)

\* nothing to score from: None, {} or a response without elements
Absent(x) == x = NoneArg \/ x = EmptyDict \/ x = [elements |-> {}]

\* C21: compute_all ends in an exception exactly when the polygon is
\* malformed or both the feature collection and the elevation statistics
\* are absent or empty; otherwise it returns a result.
C21_HardFailureExactlyTwoCases ==
    pc # "start" =>
        (pc = "raised" <=>
            \/ Malformed(args.parcel)
            \/ (Absent(args.osm_data) /\ Absent(args.dem_stats)))

---------------------------------------------------------------------------
(* Claim about the inputs of compute_all.                                  *)

BothReturned == \A i \in Callers : pc[i] # "start"

\* C22: compute_all leaves the polygon, the feature records and dem_stats
\* as they were given, and two invocations on the same inputs return equal
\* results in either order.
C22_InputsUntouched ==
    /\ [][args' = args]_vars
    /\ [](BothReturned => res[1] = res[2])

\* both invocations returned a result scored from the defaults of an empty
\* dem_stats
C22_Witness ==
    /\ \A i \in Callers : pc[i] = "done"
    /\ args.dem_stats = EmptyDict
    /\ res[1] = res[2]
    /\ res[1].score.slope = RInt(70)

---------------------------------------------------------------------------
(* Claim about contradictory risks (checked under SpecRisks).              *)

\* the statements of the risk list, without the numbers formatted into them
RiskTexts == {res.risks[i][1] : i \in 1..Len(res.risks)}

\* C29: a risk list never holds both "no road adjacency" and "narrow
\* frontage", nor both "steep slope" and "very small slope", nor both the
\* high and the medium flood risk.
C29_NoContradictoryRisks ==
    Done =>
        /\ ~({"no_road_adjacency", "narrow_frontage_lt_8m"} \subseteq RiskTexts)
        /\ ~({"slope_steep", "slope_very_small"} \subseteq RiskTexts)
        /\ ~({"flood_high", "flood_medium"} \subseteq RiskTexts)

\* a list with one statement of each pair: a narrow frontage, a steep slope
\* and a high flood risk
C29_Witness ==
    /\ Done
    /\ {"narrow_frontage_lt_8m", "flood_high"} \subseteq RiskTexts
    /\ RiskTexts \cap {"slope_steep", "slope_very_small"} # {}

---------------------------------------------------------------------------
(* Claims about the two populations of compute_dem_stats.  The lookup      *)
(* result is read from the arguments: Looked[i] is the elevation of sample *)
(* point i, None when the lookup failed for it.                            *)

Looked == _get_elevations([i \in 1..Len(args.pts_inside) |-> i], args.net).elev

RECURSIVE Pick(_, _, _)
\* the elevations raw[i], i from k on, of the points that satisfy keep
Pick(raw, keep, k) ==
    IF k > Len(raw) THEN <<>>
    ELSE IF raw[k] # None /\ keep[k] THEN <<Val(raw[k])>> \o Pick(raw, keep, k + 1)
    ELSE Pick(raw, keep, k + 1)

\* the valid elevations of all sample points
ValidAll == Pick(Looked, [i \in 1..Len(Looked) |-> TRUE], 1)

\* the valid elevations of the sample points inside the parcel
ValidInside ==
    Pick(Looked, [i \in 1..Len(Looked) |-> i <= Len(args.pts_inside) /\ args.pts_inside[i]], 1)

\* the inside population after the substitution of "all" for an empty one
InsidePopulation == IF ValidInside = <<>> THEN ValidAll ELSE ValidInside

\* C25: the statistics are those of the populations in which an elevation
\* is "inside" exactly when its own sample point lies inside the parcel and
\* "all" holds every non-null elevation, whatever the positions of the
\* nulls.
C25_PopulationsFollowPoints ==
    (Done /\ ValidAll # <<>>) =>
        res.stats = StatsOf([elev_all |-> ValidAll, elev_in |-> ValidInside])

\* C26: with some elevation known but none for a point inside the parcel,
\* minimum, maximum, median and 95th percentile are those of all valid
\* elevations and rel_lowness_m is 0.
C26_AllSubstitutedForEmptyInside ==
    (Done /\ ValidAll # <<>> /\ ValidInside = <<>>) =>
        /\ res.stats.elev_min = RInt(Sort(ValidAll)[1])
        /\ res.stats.elev_max = RInt(Sort(ValidAll)[Len(ValidAll)])
        /\ res.stats.elev_med = Median(ValidAll)
        /\ res.stats.elev_p95 = Percentile95(ValidAll)
        /\ res.stats.rel_lowness_m = RInt(0)

\* C28: slope_indicative_pct is 0 when the inside population has three or
\* fewer valid elevations, and lies in [0,100] otherwise.
C28_SlopeZeroUpToThree ==
    Done =>
        /\ Len(InsidePopulation) <= 3 => res.stats.slope_indicative_pct.sq = RInt(0)
        /\ RLe(RInt(0), res.stats.slope_indicative_pct.sq)
        /\ RLe(res.stats.slope_indicative_pct.sq, RInt(M(100) * M(100)))

---------------------------------------------------------------------------
(* Claim about the size of the sampling grid (checked under SpecGrid).     *)

\* C27: for every bounding box the grid has at most max_pts points:
\* nx * ny <= 500.
C27_GridWithinMaxPts == Done => res.nx * res.ny <= max_pts

---------------------------------------------------------------------------
(* Claim about reads of the cache (checked under SpecCacheSeq).            *)

---------------------------------------------------------------------------
(* Claim about concurrent writes of the cache (checked under               *)
(* SpecCacheConc).                                                         *)

\* C23: whatever the interleaving of two set_cache_json calls and reads of
\* the same key, the text a read loads is never partly written, and a read
\* returns None or a value that was passed to a set call.
C23_AtomicWrites ==
    /\ res.loaded \in {<<"unread">>, <<"nofile">>} \/ Complete(res.loaded)
    /\ res.returned \in {<<"unread">>, <<"None">>, <<"v0">>, <<"v1">>, <<"v2">>}

---------------------------------------------------------------------------
(* Claim about fetch_overpass (checked under SpecOverpass).                *)

\* what the cache holds for the bounding box when the call starts
CacheRead == get_cache_json(args.before, Some(OverpassTtl), args.now)

\* the endpoints that answer HTTP 200 with valid JSON
Answering ==
    {i \in 1..Len(args.answers) :
        /\ args.answers[i].kind = "response"
        /\ args.answers[i].status = 200
        /\ args.answers[i].body # "bad"}

\* no endpoint is contacted and the cached response is returned
ServedFromCache ==
    /\ res.contacted = <<>>
    /\ ~res.raised
    /\ res.returned = CacheRead.returned
    /\ res.entry = CacheRead.entry

\* the endpoints are tried in order up to the first that answers, whose
\* response is returned and stored; RuntimeError when none answers, and
\* then the cache is not written
ServedFromNetwork ==
    IF Answering # {}
    THEN LET first == CHOOSE i \in Answering : \A j \in Answering : i <= j
         IN  /\ res.contacted = UpTo(first)
             /\ ~res.raised
             /\ res.returned = Some(args.answers[first].body)
             /\ res.entry # None
             /\ res.entry.data = args.answers[first].body
    ELSE /\ res.contacted = UpTo(Len(args.answers))
         /\ res.raised
         /\ res.entry = CacheRead.entry

\* C30 as stated: on a cache hit no endpoint is contacted; on a miss the
\* endpoints are tried in order, the first response with HTTP 200 and valid
\* JSON is returned and stored and no later endpoint is contacted;
\* RuntimeError is raised exactly when every endpoint failed, and a failed
\* attempt does not write the cache.
C30_HitContactsNoEndpoint ==
    args.op = "fetch" =>
        IF CacheRead.returned # None THEN ServedFromCache ELSE ServedFromNetwork

\* C30, amended: a cached response that is an empty JSON value counts as a
\* miss; only a non-empty cached response is served without contacting an
\* endpoint.
C30_NonEmptyHitContactsNoEndpoint ==
    args.op = "fetch" =>
        IF CacheRead.returned # None /\ Val(CacheRead.returned) # "{}"
        THEN ServedFromCache
        ELSE ServedFromNetwork

\* the cache holds an empty response; the second call tries the endpoints in
\* order, passes the failing first one and returns and stores the answer of
\* the second
C30_Witness ==
    /\ args.op = "fetch"
    /\ CacheRead.returned = Some("{}")
    /\ Len(args.answers) = 3
    /\ Answering = {2, 3}
    /\ res.contacted = <<1, 2>>
    /\ res.returned = Some("osmA")
    /\ res.entry.data = "osmA"

====
